---- MODULE Spec2Model ----
(***************************************************************************)
(* pyff: the file-based HTML cache (caching.py) and its fetch sites        *)
(* (Team.__init__, Team.get_player, SkillPlayer.__init__, QB.__init__),    *)
(* and the terminal prompt loop (user_prompting.py).                       *)
(*                                                                         *)
(* A page is the sequence of the characters that tell it from other pages; *)
(* the empty sequence is the empty document.  "CR" and "LF" stand for the  *)
(* carriage return and the line feed.  A file name is the sequence of the  *)
(* pieces the f-string joins.                                              *)
(***************************************************************************)
EXTENDS Integers, Sequences, FiniteSets, TLC

\* ------------------------------------------------------------- bounds
\* requests.get calls over all runs
MaxRequests == 3
\* times the calendar year changes
MaxYearAdvance == 1

\* the longest line typed at a prompt
MaxLineLen == 2

\* the most lines typed at one call of prompt_for_stat
MaxEntries == 3

\* how far below 0 and above 100 the percentages entered go
MaxOver == 1

\* the most total plays entered
MaxPlays == 1

\* the most times Team.project asks for the two percentages
MaxRounds == 2

\* the most rows the operations of a session add to the workbook
MaxRows == 4

\* the most players main constructs in a session
MaxPlayers == 3

\* ------------------------------------------------- program constants
FirstYear == 2026
WindowBack == 3
HTTP_OK == 200
HTTP_NOT_FOUND == 404
SleepSeconds == 6

\* the head of cli.ALL_TEAMS
ALL_TEAMS == <<"crd">>

TeamNames == {ALL_TEAMS[i] : i \in DOMAIN ALL_TEAMS}

\* Positions enum, in declaration order
Positions == <<"QB", "WR", "RB", "TE">>

SkillPositions == {"RB", "TE", "WR"}

\* ------------------------------------------------------------- pages
\* response.text of a request: the empty document, a page, a page whose line
\* ends with "\r\n"
Pages == {<<>>, <<"a">>, <<"CR", "LF">>}

\* range(current_year - 3, current_year + 1)
Window(current_year) == (current_year - WindowBack)..current_year

\* what a text-mode read returns for the stored characters: "\r\n" and "\r"
\* are both read as "\n"
RECURSIVE UniversalNewlines(_)
UniversalNewlines(s) ==
    IF s = <<>> THEN <<>>
    ELSE IF Head(s) = "CR"
         THEN IF Len(s) >= 2 /\ s[2] = "LF"
              THEN <<"LF">> \o UniversalNewlines(Tail(Tail(s)))
              ELSE <<"LF">> \o UniversalNewlines(Tail(s))
         ELSE <<Head(s)>> \o UniversalNewlines(Tail(s))

\* a read that keeps the stored characters as they are
load_file_cache_raw(fs, file_path) == fs[file_path]

\* load_file_cache: file_path.open() then f.read()
load_file_cache(fs, file_path) == UniversalNewlines(fs[file_path])

\* the parent folder made, the file not written
cache_file_mkdir_only(fs, file_path, file_contents) == fs

\* a write that opens the file and leaves it empty
cache_file_truncated(fs, file_path, file_contents) ==
    [p \in DOMAIN fs \cup {file_path} |-> IF p = file_path THEN <<>> ELSE fs[p]]

\* cache_file: mkdir of the parent, file_path.open("w"), f.write
cache_file(fs, file_path, file_contents) ==
    [p \in DOMAIN fs \cup {file_path} |->
        IF p = file_path THEN file_contents ELSE fs[p]]

\* the page an earlier run fetched and stored
StoredEarlier == <<"a">>

\* ------------------------------------------------------------- names
\* the rows of a roster table: position and player name.  No tight end.
RosterRows ==
    { <<"QB", <<"A", "B">> >>,
      <<"WR", <<"A", "B">> >>,
      <<"WR", <<"A", " ", "B">> >>,
      <<"RB", <<"A", "B">> >> }

\* _find_players: the names of the rows of the requested position
FindPlayers(requested_position) ==
    {row[2] : row \in {r \in RosterRows : r[1] = requested_position}}

\* str.replace(' ', '')
RECURSIVE RemoveSpaces(_)
RemoveSpaces(s) ==
    IF s = <<>> THEN <<>>
    ELSE IF Head(s) = " " THEN RemoveSpaces(Tail(s))
         ELSE <<Head(s)>> \o RemoveSpaces(Tail(s))

\* CACHE_DIR / team_name / f"team_{year}.html"
TeamPath(team_name, year) == <<team_name, <<"team_", ToString(year), ".html">>>>

\* CACHE_DIR / team_name / f"roster_{current_year}.html"
RosterPath(team_name, year) == <<team_name, <<"roster_", ToString(year), ".html">>>>

\* CACHE_DIR / team_name / f"{position.value}_{player_name.replace(' ', '')}.html"
PlayerPath(team_name, position, player_name) ==
    <<team_name, <<position, "_">> \o RemoveSpaces(player_name) \o <<".html">>>>

\* CACHE_DIR / team_name / f"qb_{player_name.replace(' ', '')}.html"
QBPath(team_name, player_name) ==
    <<team_name, <<"qb_">> \o RemoveSpaces(player_name) \o <<".html">>>>


\* ------------------------------------------- prompt_for_stat, the lines
\* the keys the user types: a digit, the sign, the point, the blank
InputChars == {"1", "-", ".", " "}

Digits == {"0", "1"}

\* what input() can return
Lines == UNION {[1..n -> InputChars] : n \in 0..MaxLineLen}

\* the calls of prompt_for_stat: the stat's name and the type it is asked in
StatCalls == {<<"games played", "int">>, <<"target share", "float">>}

RECURSIVE lstrip(_)
lstrip(s) == IF s # <<>> /\ Head(s) = " " THEN lstrip(Tail(s)) ELSE s

RECURSIVE rstrip(_)
rstrip(s) ==
    IF s # <<>> /\ s[Len(s)] = " " THEN rstrip(SubSeq(s, 1, Len(s) - 1)) ELSE s

\* int() and float() ignore the blanks around the literal
strip(s) == rstrip(lstrip(s))

Negative(s) == s # <<>> /\ Head(s) = "-"

\* the literal after its optional sign
Unsigned(s) == IF Negative(s) THEN Tail(s) ELSE s

RECURSIVE WithoutPoint(_)
WithoutPoint(s) ==
    IF s = <<>> THEN <<>>
    ELSE IF Head(s) = "." THEN WithoutPoint(Tail(s))
    ELSE <<Head(s)>> \o WithoutPoint(Tail(s))

RECURSIVE AfterPoint(_)
AfterPoint(s) ==
    IF s = <<>> THEN <<>>
    ELSE IF Head(s) = "." THEN Tail(s)
    ELSE AfterPoint(Tail(s))

DigitValue(c) == IF c = "1" THEN 1 ELSE 0

RECURSIVE Decimal(_)
Decimal(s) ==
    IF s = <<>> THEN 0
    ELSE 10 * Decimal(SubSeq(s, 1, Len(s) - 1)) + DigitValue(s[Len(s)])

\* the strings int() takes: blanks, an optional sign, digits
IntLiteral(line) ==
    LET u == Unsigned(strip(line))
    IN  /\ u # <<>>
        /\ \A i \in DOMAIN u : u[i] \in Digits

\* the strings float() takes: blanks, an optional sign, digits with at most
\* one point among them and at least one digit
FloatLiteral(line) ==
    LET u == Unsigned(strip(line))
    IN  /\ \E i \in DOMAIN u : u[i] \in Digits
        /\ \A i \in DOMAIN u : u[i] \in Digits \cup {"."}
        /\ Cardinality({i \in DOMAIN u : u[i] = "."}) <= 1

None == [type |-> "NoneType"]

Str(line) == [type |-> "str", value |-> line]

\* int(line)
int(line) ==
    LET t == strip(line)
        n == Decimal(Unsigned(t))
    IN  [type |-> "int", value |-> IF Negative(t) THEN 0 - n ELSE n]

\* float(line): the digits as a whole number and the count of those after
\* the point
float(line) ==
    LET t == strip(line)
        n == Decimal(WithoutPoint(Unsigned(t)))
    IN  [type |-> "float",
         num |-> IF Negative(t) THEN 0 - n ELSE n,
         scale |-> Len(AfterPoint(Unsigned(t)))]

ValueErrorNever(stat_dtype, line) == FALSE

\* stat_dtype(stat_value) raises ValueError
ValueError(stat_dtype, line) ==
    CASE stat_dtype = "int" -> ~IntLiteral(line)
      [] stat_dtype = "float" -> ~FloatLiteral(line)
      [] stat_dtype = "str" -> FALSE

\* stat_dtype(stat_value)
StatDtype(stat_dtype, line) ==
    CASE stat_dtype = "int" -> int(line)
      [] stat_dtype = "float" -> float(line)
      [] stat_dtype = "str" -> Str(line)

PromptLine(stat_name, current_year) == <<"Estimated", stat_name, current_year>>

ErrorLine(stat_dtype) == <<"This is not a valid", stat_dtype>>

NoStat == [stat_name |-> "none", stat_dtype |-> "none", current_year |-> 0]

\* ------------------------------------------------------------ numbers
\* A number of a sheet is a fraction n/d in lowest terms with d > 0: the
\* arithmetic of the columns is carried out exactly.
Abs(i) == IF i < 0 THEN 0 - i ELSE i

RECURSIVE GCD(_, _)
GCD(a, b) == IF b = 0 THEN a ELSE GCD(b, a % b)

\* n/d in lowest terms
Rat(n, d) ==
    LET g == GCD(Abs(n), Abs(d))
        sign == IF d < 0 THEN 0 - 1 ELSE 1
    IN  [kind |-> "num", n |-> sign * (n \div g), d |-> sign * (d \div g)]

Whole(i) == Rat(i, 1)

\* an empty cell, NaN in a DataFrame
nan == [kind |-> "nan"]

\* a cell holding text
Text(s) == [kind |-> "str", s |-> s]

IsNum(a) == a.kind = "num"

\* a/b + c/d over the least common denominator
Sum2(an, ad, bn, bd) ==
    LET g == GCD(ad, bd)
    IN  Rat(an * (bd \div g) + bn * (ad \div g), (ad \div g) * bd)

\* a/b * c/d, the common factors taken out before the products
Product2(an, ad, bn, bd) ==
    LET g1 == GCD(Abs(an), bd)
        g2 == GCD(Abs(bn), ad)
    IN  IF an = 0 \/ bn = 0 THEN Rat(0, 1)
        ELSE Rat((an \div g1) * (bn \div g2), (ad \div g2) * (bd \div g1))

\* pandas arithmetic: NaN wherever an operand is NaN
RatAdd(a, b) ==
    IF IsNum(a) /\ IsNum(b) THEN Sum2(a.n, a.d, b.n, b.d) ELSE nan

RatSub(a, b) ==
    IF IsNum(a) /\ IsNum(b) THEN Sum2(a.n, a.d, 0 - b.n, b.d) ELSE nan

RatMul(a, b) ==
    IF IsNum(a) /\ IsNum(b) THEN Product2(a.n, a.d, b.n, b.d) ELSE nan

\* float division: x/0 is inf or -inf and 0/0 is NaN, no exception
RatDiv(a, b) ==
    IF ~(IsNum(a) /\ IsNum(b)) THEN nan
    ELSE IF b.n > 0 THEN Product2(a.n, a.d, b.d, b.n)
    ELSE IF b.n < 0 THEN Product2(a.n, a.d, 0 - b.d, 0 - b.n)
    ELSE IF a.n = 0 THEN nan
    ELSE [kind |-> "inf", negative |-> a.n < 0]

\* a < b: false when either is NaN
RatLess(a, b) ==
    /\ IsNum(a) /\ IsNum(b)
    /\ LET g == GCD(a.d, b.d)
       IN  a.n * (b.d \div g) < b.n * (a.d \div g)

\* fillna(0)
FillNa0(a) == IF a = nan THEN Whole(0) ELSE a

\* round(x, 2): to the nearest hundredth, a tie to the even one
Round2(a) ==
    LET h == a.n * 100
        q == h \div a.d
        r == h % a.d
        up == 2 * r > a.d \/ (2 * r = a.d /\ q % 2 = 1)
    IN  Rat(IF up THEN q + 1 ELSE q, 100)

\* --------------------------------------------------------- DataFrames
\* A DataFrame is its columns in order and its rows in order, every row a
\* function from the columns to cells.
EmptyFrame == [columns |-> <<>>, rows |-> <<>>]

\* the sequence of the values f[1] .. f[n], each worked out once
Listed(f) == SubSeq(f, 1, Len(f))

Columns(df) == {df.columns[i] : i \in DOMAIN df.columns}

\* the row r with the column c added, empty
WithCell(r, c) == IF c \in DOMAIN r THEN r ELSE r @@ (c :> nan)

\* setting a column that is not there adds it, empty in every row
AddColumn(df, c) ==
    IF c \in Columns(df) THEN df
    ELSE [columns |-> Append(df.columns, c),
          rows |-> Listed([i \in DOMAIN df.rows |-> WithCell(df.rows[i], c)])]

\* df.loc[label, c] = v with a label that is not in the index: a row is
\* added at the end, empty but for the cell
LocNew(df, c, v) ==
    LET d == AddColumn(df, c)
        r == [[x \in Columns(d) |-> nan] EXCEPT ![c] = v]
    IN  [columns |-> d.columns, rows |-> Append(d.rows, r)]

\* df.loc[label, c] = v for the row at position i
LocSet(df, i, c, v) ==
    LET d == AddColumn(df, c)
    IN  [d EXCEPT !.rows[i][c] = v]

\* pd.DataFrame({column: value, ...}, index=[label]): one row, the columns
\* in the order of the pairs
RowFrame(pairs) ==
    [columns |-> Listed([i \in DOMAIN pairs |-> pairs[i][1]]),
     rows |-> << [c \in {pairs[i][1] : i \in DOMAIN pairs} |->
                    pairs[CHOOSE i \in DOMAIN pairs : pairs[i][1] = c][2]] >>]

\* the columns cs that are not there added after the others, empty
AddColumns(df, cs) ==
    LET Absent(c) == c \notin Columns(df)
        added_columns == SelectSeq(cs, Absent)
        empty == [c \in {added_columns[i] : i \in DOMAIN added_columns} |-> nan]
    IN  [columns |-> df.columns \o added_columns,
         rows |-> Listed([i \in DOMAIN df.rows |-> df.rows[i] @@ empty])]

\* pd.concat([a, b]): the columns of a, then those only b has; the rows of a,
\* then the rows of b
Concat(a, b) ==
    LET an == AddColumns(a, b.columns)
        bn == AddColumns(b, a.columns)
    IN  [columns |-> an.columns, rows |-> an.rows \o bn.rows]

\* df[c]
Series(df, c) == Listed([i \in DOMAIN df.rows |-> df.rows[i][c]])

\* df[c] = series
SetColumn(df, c, series) ==
    LET d == AddColumn(df, c)
    IN  [columns |-> d.columns,
         rows |-> Listed([i \in DOMAIN d.rows |->
                            [d.rows[i] EXCEPT ![c] = series[i]]])]

\* df.loc[mask, c] = series
SetWhere(df, mask, c, series) ==
    LET d == AddColumn(df, c)
    IN  [columns |-> d.columns,
         rows |-> Listed([i \in DOMAIN d.rows |->
                            IF mask[i] THEN [d.rows[i] EXCEPT ![c] = series[i]]
                            ELSE d.rows[i]])]

\* series.sum(): the empty cells skipped; the sum of a longer series is
\* the sum of its first half plus the sum of the rest
RECURSIVE Sum(_)
Sum(series) ==
    IF Len(series) = 0 THEN Whole(0)
    ELSE IF Len(series) = 1
    THEN IF IsNum(series[1]) THEN series[1] ELSE Whole(0)
    ELSE LET n == Len(series)
             mid == n \div 2
         IN  CHOOSE total \in {RatAdd(a, b) : a \in {Sum(SubSeq(series, 1, mid))},
                                              b \in {Sum(SubSeq(series, mid + 1, n))}} :
                 TRUE

\* element-wise arithmetic of two series, and of a series and a number
Times(s, t) == Listed([i \in DOMAIN s |-> RatMul(s[i], t[i])])
Over(s, t) == Listed([i \in DOMAIN s |-> RatDiv(s[i], t[i])])
Plus(s, t) == Listed([i \in DOMAIN s |-> RatAdd(s[i], t[i])])
Scaled(s, q) == Listed([i \in DOMAIN s |-> RatMul(s[i], q)])
Divided(s, q) == Listed([i \in DOMAIN s |-> RatDiv(s[i], q)])

\* ----------------------------------------------------------- workbook
\* the teams given to main and to create_fantasy_rankings
teams == <<"crd", "atl">>

\* str.capitalize() of a team name: the sheet's name
Capitalize(team_name) ==
    CASE team_name = "crd" -> "Crd"
      [] team_name = "atl" -> "Atl"

\* the sheet a new openpyxl Workbook starts with
DefaultSheet == "Sheet"

\* no file at the path
NoFile == [exists |-> FALSE, names |-> <<>>, sheets |-> <<>>]

\* Workbook()
Workbook == [exists |-> TRUE, names |-> <<DefaultSheet>>,
             sheets |-> (DefaultSheet :> EmptyFrame)]

SheetNames(wb) == {wb.names[i] : i \in DOMAIN wb.names}

\* wb.create_sheet(title): an empty sheet after the others
create_sheet(wb, title) ==
    [exists |-> TRUE, names |-> Append(wb.names, title),
     sheets |-> (title :> EmptyFrame) @@ wb.sheets]

\* the strings pandas reads as a missing value
NAStrings == {"", "NA", "N/A", "NULL", "NaN", "None", "n/a", "nan", "null"}

\* what a cell holds once written: an infinity is written as the text inf
Written(cell) ==
    IF cell.kind = "inf" THEN Text(IF cell.negative THEN "-inf" ELSE "inf") ELSE cell

\* the cells of a row, each through F
Cells(r, F(_)) == [c \in DOMAIN r |-> F(r[c])]

\* df.to_excel(writer, index=False): the header and the rows, a NaN as an empty cell
to_excel(df) ==
    [columns |-> df.columns,
     rows |-> Listed([i \in DOMAIN df.rows |-> Cells(df.rows[i], Written)])]

\* what a cell is read as
Read(cell) ==
    IF cell.kind = "str" /\ cell.s \in NAStrings THEN nan ELSE cell

\* pd.read_excel(filename, sheet_name): the first row as the columns
read_excel(wb, sheet_name) ==
    LET sheet == wb.sheets[sheet_name]
    IN  [columns |-> sheet.columns,
         rows |-> Listed([i \in DOMAIN sheet.rows |-> Cells(sheet.rows[i], Read)])]

\* a writer in mode "w": a new file with the one sheet
ExcelWriterNew(wb, sheet_name, df) ==
    [exists |-> TRUE,
     names |-> <<sheet_name>>,
     sheets |-> (sheet_name :> to_excel(df))]

\* pd.ExcelWriter(mode="a", if_sheet_exists="replace") and to_excel: the
\* sheet of that name is replaced where it is, a new one comes last
ExcelWriter(wb, sheet_name, df) ==
    [exists |-> TRUE,
     names |-> IF sheet_name \in SheetNames(wb) THEN wb.names
               ELSE Append(wb.names, sheet_name),
     sheets |-> (sheet_name :> to_excel(df)) @@ wb.sheets]

\* ------------------------------------------------------ fetch_data_stat
\* a tag of the page, with the text get_text() gives
Tag(text) == [type |-> "Tag", text |-> text]

\* the texts a cell of a season row holds
CellTexts == {<<>>, <<"0">>, <<"1">>, <<"1", ".", "1">>, <<"x">>}

\* row.find(attrs={"data-stat": ...}): the cell, or None when the row has none
RowCells == {None} \cup {Tag(text) : text \in CellTexts}

\* the default values the callers pass: "", "NA" and 0
DefaultValues == {Str(<<>>), Str(<<"N", "A">>), [type |-> "int", value |-> 0]}

\* the types the callers pass
Dtypes == {"str", "int", "float"}

\* fetch_data_stat(row, stat_identifier, stat_html_attribute, stat_default_value,
\* stat_dtype, return_html), stat_html being what row.find gives: the value
\* returned, or the exception raised, and what is printed
fetch_data_stat(stat_html, stat_default_value, stat_dtype, return_html) ==
    IF stat_html = None
    THEN [raised |-> "none", value |-> stat_default_value,
          printed |-> <<"Did not find stat">>]
    ELSE IF return_html
    THEN [raised |-> "none", value |-> stat_html, printed |-> <<>>]
    ELSE LET stat_value == Str(stat_html.text)
         IN  IF stat_default_value # Str(<<>>) /\ stat_value = None
             THEN [raised |-> "none", value |-> stat_default_value, printed |-> <<>>]
             ELSE IF stat_value = Str(<<>>) /\ stat_dtype \in {"int", "float"}
             THEN [raised |-> "none", value |-> stat_default_value,
                   printed |-> <<"Value empty">>]
             ELSE IF ValueError(stat_dtype, stat_value.value)
             THEN [raised |-> "ValueError", value |-> None,
                   printed |-> <<stat_html, stat_value>>]
             ELSE [raised |-> "none",
                   value |-> StatDtype(stat_dtype, stat_value.value),
                   printed |-> <<>>]

RECURSIVE Power10(_)
Power10(k) == IF k = 0 THEN 1 ELSE 10 * Power10(k - 1)

\* the number a Python int or float is
Number(v) ==
    IF v.type = "int" THEN Whole(v.value) ELSE Rat(v.num, Power10(v.scale))

\* ------------------------------------------------------------- state
VARIABLES
    today,      \* date.today().year
    files,      \* the files under CACHE_DIR: path -> stored characters
    pc,         \* where the running program is
    op,         \* the operation in progress and its arguments
    args,       \* use_cache / save_results of the function holding the fetch site
    site,       \* the fetch site in progress
    year,       \* Team.__init__: the loop variable
    hd,         \* Team.__init__: self.historical_data being filled
    team,       \* the Team object the program holds
    resp,       \* the response of the request in flight
    doc,        \* the text handed to BeautifulSoup
    error,      \* the exception that ended the run
    nreq,       \* requests.get calls of the operation in progress
    slept,      \* seconds the operation in progress spent in time.sleep
    unslept,    \* a requests.get call of this run has not been followed by its sleep
    requests,   \* requests.get calls so far, over all runs
    fetched,    \* the years whose page the construction in progress requested
    origin,     \* history: for each file, the fetch target it was stored for
    rewritten,  \* history: a file's content was replaced since `last` was taken
    last,       \* history: the last Team construction that completed with save_results
    resume,     \* history: the last Team construction a failed request ended
    prompt_pc,  \* prompt_for_stat: where the call is
    stat,       \* prompt_for_stat: stat_name, stat_dtype, current_year
    need_answer, \* prompt_for_stat: the loop's flag
    stat_value, \* prompt_for_stat: the local the function returns
    console,    \* the prompts and messages on the terminal since the call
    entries,    \* history: how many lines were typed since the call
    typed       \* history: the last line typed

VARIABLES
    project_pc,   \* Team.project: where the call is
    total_plays,  \* Team.project: self.total_plays
    run_percent,  \* Team.project: self.run_percent
    pass_percent, \* Team.project: self.pass_percent
    rounds        \* history: times the loop's body asked for the percentages

VARIABLES
    folder,       \* the workbook's parent directory exists
    book,         \* the workbook file: its sheets in order
    book_error,   \* the exception that ended the last workbook operation
    printed,      \* the warnings the last workbook operation printed
    last_op,      \* history: the last workbook operation and its arguments
    added         \* history: rows added to the workbook since the start

VARIABLES
    fetch,        \* a call of fetch_data_stat: its arguments and what it gave
    skill_player, \* SkillPlayer.__init__: the loop over the years and the object
    quarterback   \* QB.__init__: the loop over the years and the object

VARIABLES
    driver        \* main: where it is, the team and position at hand, its calls so far

\* the variables of the cache and its fetch sites
cacheVars == <<today, files, pc, op, args, site, year, hd, team, resp, doc, error,
               nreq, slept, unslept, requests, fetched, origin, rewritten, last,
               resume>>

\* the variables of the prompt loop
promptVars ==
    <<prompt_pc, stat, need_answer, stat_value, console, entries, typed>>

\* the variables of Team.project
projectVars == <<project_pc, total_plays, run_percent, pass_percent, rounds>>

\* the variables of the workbook
bookVars == <<folder, book, book_error, printed, last_op, added>>

\* the variables of the parsing of a player's page
parseVars == <<fetch, skill_player, quarterback>>

\* the variables of main
mainVars == <<driver>>

\* what the cache's operations leave alone
besidesCache == <<promptVars, projectVars, bookVars, parseVars, mainVars>>

\* what prompt_for_stat leaves alone
besidesPrompt == <<cacheVars, projectVars, bookVars, parseVars, mainVars>>

\* what Team.project leaves alone
besidesProject == <<cacheVars, promptVars, bookVars, parseVars, mainVars>>

\* what the workbook's operations leave alone
besidesBook == <<cacheVars, promptVars, projectVars, parseVars, mainVars>>

\* what a call of fetch_data_stat leaves alone
besidesFetch ==
    <<cacheVars, promptVars, projectVars, bookVars, skill_player, quarterback,
      mainVars>>

\* what SkillPlayer.__init__'s loop leaves alone
besidesSkill ==
    <<cacheVars, promptVars, projectVars, bookVars, fetch, quarterback,
      mainVars>>

\* what QB.__init__'s loop leaves alone
besidesQB ==
    <<cacheVars, promptVars, projectVars, bookVars, fetch, skill_player,
      mainVars>>

\* what main's steps leave alone, the workbook apart
besidesMain == <<cacheVars, promptVars, projectVars, parseVars>>

vars == <<cacheVars, promptVars, projectVars, bookVars, parseVars, mainVars>>

NoOp == [kind |-> "none", team_name |-> "", current_year |-> 0, use_cache |-> TRUE,
         save_results |-> TRUE, position |-> "", player_name |-> <<>>]

NoTeam == [team_name |-> "", current_year |-> 0, historical_data |-> <<>>]

NoResp == [status_code |-> 0, text |-> <<>>]

NoArgs == [use_cache |-> TRUE, save_results |-> TRUE]

NoLast == [team_name |-> "", current_year |-> 0, historical_data |-> <<>>]

NoResume == [team_name |-> "", year |-> 0, stored |-> {}]

\* a cell of the DataFrame that was never assigned
NaN == [text |-> <<"NaN">>, has_stats |-> FALSE]

\* the row Team.__init__ parses out of one year's document: the play counts
\* (not for the current year) and the coaches' names
TeamRow(d, y, current_year) == [text |-> d, has_stats |-> y # current_year]

\* fetch_sub_tag(doc, "tbody") and fetch_specific_sub_tag(doc, "div", "all_roster")
\* assert that the tag exists
HasTable(d) == d # <<>>

\* the path the fetch site in progress reads and writes
SitePath ==
    CASE site = "team" -> TeamPath(op.team_name, year)
      [] site = "roster" -> RosterPath(team.team_name, team.current_year)
      [] site = "player" -> PlayerPath(team.team_name, op.position, op.player_name)
      [] site = "qb_roster" -> RosterPath(team.team_name, op.current_year)
      [] site = "qb_player" -> QBPath(team.team_name, op.player_name)

\* what the fetch site in progress fetches: the URL's team, and the year or
\* the player
SiteTarget ==
    CASE site = "team" -> <<"team", op.team_name, ToString(year)>>
      [] site = "roster" -> <<"roster", team.team_name, ToString(team.current_year)>>
      [] site = "player" -> <<"player", team.team_name, op.position, op.player_name>>
      [] site = "qb_roster" -> <<"roster", team.team_name, ToString(op.current_year)>>
      [] site = "qb_player" -> <<"player", team.team_name, op.position, op.player_name>>

\* the existing file not looked at
CacheHitNever(use_cache, fs, file_path) == FALSE

\* the flag not looked at
CacheHitAnyFlag(use_cache, fs, file_path) == file_path \in DOMAIN fs

\* `if use_cache and path.exists():`
CacheHit(use_cache, fs, file_path) == use_cache /\ file_path \in DOMAIN fs

\* the status not checked
StatusNeverRaises(response) == FALSE

\* `if response.status_code != 200: raise requests.HTTPError`
StatusRaises(response) == response.status_code # HTTP_OK

\* the flag read the wrong way round
SaveResultsInverted(save_results, fs, file_path, text) ==
    IF save_results THEN fs ELSE cache_file(fs, file_path, text)

\* `if save_results: cache_file(path, response.text)`
SaveResults(save_results, fs, file_path, text) ==
    IF save_results THEN cache_file(fs, file_path, text) ELSE fs

\* the cache an earlier run left behind: the team pages of the first k years
\* of the window, stored in the order Team.__init__ fetches them
EarlierYears(k) == (FirstYear - WindowBack)..(FirstYear - WindowBack + k - 1)

EarlierCache(k) ==
    [p \in {TeamPath(n, y) : n \in TeamNames, y \in EarlierYears(k)} |-> StoredEarlier]

\* each of them stored for its own team and year
EarlierOrigin(k) == [p \in DOMAIN EarlierCache(k) |-> <<"team", p[1], p[2][2]>>]

InitCache ==
    /\ today = FirstYear
    /\ \E k \in 0..(WindowBack + 1) :
          /\ files = EarlierCache(k)
          /\ origin = EarlierOrigin(k)
    /\ pc = "idle"
    /\ op = NoOp
    /\ args = NoArgs
    /\ site = "none"
    /\ year = 0
    /\ hd = <<>>
    /\ team = NoTeam
    /\ resp = NoResp
    /\ doc = <<>>
    /\ error = "none"
    /\ nreq = 0
    /\ slept = 0
    /\ unslept = FALSE
    /\ requests = 0
    /\ fetched = {}
    /\ rewritten = FALSE
    /\ last = NoLast
    /\ resume = NoResume

\* ----------------------------------------------- the run ends / starts
\* an uncaught exception ends the run
Raise(exception) ==
    /\ pc' = "aborted"
    /\ error' = exception

\* a request failed: the status check raised, or requests.get itself did
RequestFailed == error \in {"HTTPError", "ConnectionError"}

\* the operator runs the program again: a new process, the same CACHE_DIR
Rerun ==
    /\ pc = "aborted" \/ (pc = "idle" /\ team # NoTeam)
    /\ pc' = "idle"
    /\ op' = NoOp
    /\ args' = NoArgs
    /\ site' = "none"
    /\ year' = 0
    /\ hd' = <<>>
    /\ team' = NoTeam
    /\ resp' = NoResp
    /\ doc' = <<>>
    /\ error' = "none"
    /\ nreq' = 0
    /\ slept' = 0
    /\ unslept' = FALSE
    /\ fetched' = {}
    /\ resume' = IF pc = "aborted" /\ op.kind = "Team" /\ op.save_results
                    /\ RequestFailed
                 THEN [team_name |-> op.team_name, year |-> year,
                       stored |-> fetched \ {year}]
                 ELSE resume
    /\ UNCHANGED <<today, files, requests, origin, rewritten, last,
                   besidesCache>>

\* the constructor (or get_player) has returned: its caller goes on, its locals
\* are gone
Return ==
    /\ pc = "done"
    /\ pc' = "idle"
    /\ op' = NoOp
    /\ args' = NoArgs
    /\ site' = "none"
    /\ year' = 0
    /\ hd' = <<>>
    /\ resp' = NoResp
    /\ doc' = <<>>
    /\ nreq' = 0
    /\ slept' = 0
    /\ fetched' = {}
    /\ IF op.kind = "Team" /\ op.save_results
       THEN /\ last' = team
            /\ rewritten' = FALSE
       ELSE UNCHANGED <<last, rewritten>>
    /\ UNCHANGED <<today, files, team, error, unslept, requests, origin, resume,
                   besidesCache>>

\* the calendar year changes between two operations
NewYear ==
    /\ pc \in {"idle", "aborted"}
    /\ today < FirstYear + MaxYearAdvance
    /\ today' = today + 1
    /\ UNCHANGED <<files, pc, op, args, site, year, hd, team, resp, doc, error,
                   nreq, slept, unslept, requests, fetched, origin, rewritten,
                   last, resume,
                   besidesCache>>

\* ------------------------------------------------------ the requests
\* the body of an error response, which the program never reads
ErrorText == <<"a">>

Responses ==
    [status_code : {HTTP_OK}, text : Pages]
        \cup [status_code : {HTTP_NOT_FOUND}, text : {ErrorText}]

\* requests.get(url): a response of some status, or a transport exception
RequestsGet(next) ==
    /\ requests < MaxRequests
    /\ requests' = requests + 1
    /\ nreq' = nreq + 1
    /\ unslept' = TRUE
    /\ fetched' = IF site = "team" THEN fetched \cup {year} ELSE fetched
    /\ \/ \E response \in Responses :
            /\ resp' = response
            /\ pc' = next
            /\ error' = error
       \/ /\ resp' = resp
          /\ Raise("ConnectionError")

\* time.sleep(6)
Sleep(seconds) == seconds + SleepSeconds

\* the status checked before the sleep
CheckThenSleep ==
    IF StatusRaises(resp)
    THEN /\ Raise("HTTPError")
         /\ UNCHANGED <<slept, unslept>>
    ELSE /\ slept' = Sleep(slept)
         /\ unslept' = FALSE
         /\ pc' = "fetched"
         /\ error' = error

\* from time.sleep(6) to the return of the response or the raise
SleepThenCheck ==
    /\ slept' = Sleep(slept)
    /\ unslept' = FALSE
    /\ IF StatusRaises(resp)
       THEN Raise("HTTPError")
       ELSE pc' = "fetched" /\ error' = error

\* handle_request up to requests.get, entered from the else branch of a fetch site
HandleRequestGet ==
    /\ pc = "consult"
    /\ site \in {"team", "roster", "player"}
    /\ ~CacheHit(args.use_cache, files, SitePath)
    /\ RequestsGet("hr_sleep")
    /\ UNCHANGED <<today, files, op, args, site, year, hd, team, doc, slept,
                   origin, rewritten, last, resume,
                   besidesCache>>

\* handle_request from time.sleep(6) to its return or raise
HandleRequestReturn ==
    /\ pc = "hr_sleep"
    /\ SleepThenCheck
    /\ UNCHANGED <<today, files, op, args, site, year, hd, team, resp, doc, nreq,
                   requests, fetched, origin, rewritten, last, resume,
                   besidesCache>>

\* the cache branch of a fetch site: load_file_cache, BeautifulSoup
Load ==
    /\ pc = "consult"
    /\ CacheHit(args.use_cache, files, SitePath)
    /\ doc' = load_file_cache(files, SitePath)
    /\ UNCHANGED <<today, files, resp, nreq, slept, unslept, requests, fetched,
                   origin, rewritten, last, resume,
                   besidesCache>>

\* the end of the else branch of a fetch site: `if save_results: cache_file(...)`,
\* BeautifulSoup
Store ==
    /\ pc = "fetched"
    /\ files' = SaveResults(args.save_results, files, SitePath, resp.text)
    /\ origin' = IF args.save_results
                 THEN [p \in DOMAIN files' |->
                         IF p = SitePath THEN SiteTarget ELSE origin[p]]
                 ELSE origin
    /\ rewritten' = (rewritten \/ (SitePath \in DOMAIN files
                                   /\ files'[SitePath] # files[SitePath]))
    /\ doc' = resp.text
    /\ resp' = NoResp
    /\ UNCHANGED <<today, nreq, slept, unslept, requests, fetched, last, resume,
                   besidesCache>>

\* ---------------------------------------------------- Team.__init__
\* Team(team_name, use_cache, save_results) up to the first year's fetch site
Team(team_name, use_cache, save_results) ==
    /\ pc = "idle"
    /\ op' = [NoOp EXCEPT !.kind = "Team", !.team_name = team_name,
                          !.current_year = today, !.use_cache = use_cache,
                          !.save_results = save_results]
    /\ args' = [use_cache |-> use_cache, save_results |-> save_results]
    /\ site' = "team"
    /\ year' = today - WindowBack
    /\ hd' = [y \in Window(today) |-> NaN]
    /\ pc' = "consult"
    /\ UNCHANGED <<today, files, team, resp, doc, error, nreq, slept, unslept,
                   requests, fetched, origin, rewritten, last, resume,
                   besidesCache>>

\* the rest of the loop body once doc is there, and the end of the loop
TeamParse(d) ==
    IF year # op.current_year /\ ~HasTable(d)
    THEN /\ Raise("AssertionError")
         /\ UNCHANGED <<year, hd, team>>
    ELSE /\ hd' = [hd EXCEPT ![year] = TeamRow(d, year, op.current_year)]
         /\ error' = error
         /\ IF year = op.current_year
            THEN /\ team' = [team_name |-> op.team_name,
                             current_year |-> op.current_year,
                             historical_data |-> hd']
                 /\ pc' = "done"
                 /\ year' = year
            ELSE /\ year' = year + 1
                 /\ pc' = "consult"
                 /\ team' = team

\* one year served from the cache
TeamCacheHit ==
    /\ site = "team"
    /\ Load
    /\ TeamParse(doc')
    /\ UNCHANGED <<op, args, site>>

\* one year's response saved and parsed
TeamFetched ==
    /\ site = "team"
    /\ Store
    /\ TeamParse(doc')
    /\ UNCHANGED <<op, args, site>>

\* ------------------------------------------------ Team.get_player
\* the arguments get_player takes when its caller passes none
GetPlayerDefaults == [use_cache |-> TRUE, save_results |-> TRUE]

NoPlayer == <<>>

\* team.get_player(requested_position, use_cache, save_results) called on its own
GetPlayer(requested_position, use_cache, save_results) ==
    /\ pc = "idle"
    /\ team # NoTeam
    /\ op' = [NoOp EXCEPT !.kind = "get_player", !.team_name = team.team_name,
                          !.current_year = team.current_year,
                          !.use_cache = use_cache, !.save_results = save_results,
                          !.position = requested_position]
    /\ args' = [use_cache |-> use_cache, save_results |-> save_results]
    /\ site' = "roster"
    /\ pc' = "consult"
    /\ UNCHANGED <<today, files, year, hd, team, resp, doc, error, nreq, slept,
                   unslept, requests, fetched, origin, rewritten, last, resume,
                   besidesCache>>

\* the arguments SkillPlayer.__init__ passes on to team.get_player(position)
SkillPlayerGetPlayerArgs(use_cache, save_results) == GetPlayerDefaults

\* SkillPlayer(team, position, use_cache, save_results) up to the roster's
\* fetch site in team.get_player(position)
SkillPlayer(position, use_cache, save_results) ==
    /\ pc = "idle"
    /\ team # NoTeam
    /\ position \in SkillPositions
    /\ op' = [NoOp EXCEPT !.kind = "SkillPlayer", !.team_name = team.team_name,
                          !.current_year = today,
                          !.use_cache = use_cache, !.save_results = save_results,
                          !.position = position]
    /\ args' = SkillPlayerGetPlayerArgs(use_cache, save_results)
    /\ site' = "roster"
    /\ pc' = "consult"
    /\ UNCHANGED <<today, files, year, hd, team, resp, doc, error, nreq, slept,
                   unslept, requests, fetched, origin, rewritten, last, resume,
                   besidesCache>>

\* _find_players and _select_player on the roster document, then the caller:
\* get_player returns; SkillPlayer.__init__ stops without a player, or goes on
\* to the player's page
RosterParse(d) ==
    IF ~HasTable(d)
    THEN /\ Raise("AssertionError")
         /\ UNCHANGED <<op, args, site>>
    ELSE /\ error' = error
         /\ \E selected \in FindPlayers(op.position) \cup {NoPlayer} :
              IF op.kind = "get_player" \/ selected = NoPlayer
              THEN /\ pc' = "done"
                   /\ UNCHANGED <<op, args, site>>
              ELSE /\ op' = [op EXCEPT !.player_name = selected]
                   /\ args' = [use_cache |-> op.use_cache,
                               save_results |-> op.save_results]
                   /\ site' = "player"
                   /\ pc' = "consult"

\* the roster served from the cache
RosterCacheHit ==
    /\ site = "roster"
    /\ Load
    /\ RosterParse(doc')
    /\ UNCHANGED <<year, hd, team>>

\* the roster's response saved and parsed
RosterFetched ==
    /\ site = "roster"
    /\ Store
    /\ RosterParse(doc')
    /\ UNCHANGED <<year, hd, team>>

\* ------------------------------------- SkillPlayer.__init__, the page
\* the player's document is there: the constructor reads the seasons and returns
PlayerParse(d) ==
    /\ pc' = "done"
    /\ error' = error
    /\ UNCHANGED <<op, args, site, year, hd, team>>

\* the player's page served from the cache
PlayerCacheHit ==
    /\ site = "player"
    /\ Load
    /\ PlayerParse(doc')

\* the player's response saved and parsed
PlayerFetched ==
    /\ site = "player"
    /\ Store
    /\ PlayerParse(doc')

\* ------------------------------------------------------ QB.__init__
\* quarterback.py imports the name Position, which teams.py does not define
\* (it defines Positions); what follows is the constructor as it is written.
\* QB(team, position, use_cache, save_results) up to the roster's fetch site
QB(use_cache, save_results) ==
    /\ pc = "idle"
    /\ team # NoTeam
    /\ op' = [NoOp EXCEPT !.kind = "QB", !.team_name = team.team_name,
                          !.current_year = today,
                          !.use_cache = use_cache, !.save_results = save_results,
                          !.position = Positions[1]]
    /\ args' = [use_cache |-> use_cache, save_results |-> save_results]
    /\ site' = "qb_roster"
    /\ pc' = "consult"
    /\ UNCHANGED <<today, files, year, hd, team, resp, doc, error, nreq, slept,
                   unslept, requests, fetched, origin, rewritten, last, resume,
                   besidesCache>>

\* the constructor's own requests.get, at either of its fetch sites
QBRequestsGet ==
    /\ pc = "consult"
    /\ site \in {"qb_roster", "qb_player"}
    /\ ~CacheHit(args.use_cache, files, SitePath)
    /\ RequestsGet("qb_sleep")
    /\ UNCHANGED <<today, files, op, args, site, year, hd, team, doc, slept,
                   origin, rewritten, last, resume,
                   besidesCache>>

\* the constructor's own time.sleep(6) and status check
QBRequestReturn ==
    /\ pc = "qb_sleep"
    /\ SleepThenCheck
    /\ UNCHANGED <<today, files, op, args, site, year, hd, team, resp, doc, nreq,
                   requests, fetched, origin, rewritten, last, resume,
                   besidesCache>>

\* the roster document searched for the quarterbacks, one of them selected or none
QBRosterParse(d) ==
    IF ~HasTable(d)
    THEN /\ Raise("TypeError")
         /\ UNCHANGED <<op, site>>
    ELSE /\ error' = error
         /\ \E selected \in FindPlayers(op.position) \cup {NoPlayer} :
              IF selected = NoPlayer
              THEN /\ pc' = "done"
                   /\ UNCHANGED <<op, site>>
              ELSE /\ op' = [op EXCEPT !.player_name = selected]
                   /\ site' = "qb_player"
                   /\ pc' = "consult"

QBRosterCacheHit ==
    /\ site = "qb_roster"
    /\ Load
    /\ QBRosterParse(doc')
    /\ UNCHANGED <<args, year, hd, team>>

QBRosterFetched ==
    /\ site = "qb_roster"
    /\ Store
    /\ QBRosterParse(doc')
    /\ UNCHANGED <<args, year, hd, team>>

QBPlayerCacheHit ==
    /\ site = "qb_player"
    /\ Load
    /\ PlayerParse(doc')

QBPlayerFetched ==
    /\ site = "qb_player"
    /\ Store
    /\ PlayerParse(doc')

\* ------------------------------------------------- prompt_for_stat
InitPrompt ==
    /\ prompt_pc = "idle"
    /\ stat = NoStat
    /\ need_answer = FALSE
    /\ stat_value = None
    /\ console = <<>>
    /\ entries = 0
    /\ typed = <<>>

\* the call, up to the first input(): the prompt is on the terminal
PromptForStat(stat_name, stat_dtype) ==
    /\ prompt_pc = "idle"
    /\ pc = "idle"
    /\ prompt_pc' = "input"
    /\ stat' = [stat_name |-> stat_name, stat_dtype |-> stat_dtype,
                current_year |-> today]
    /\ need_answer' = TRUE
    /\ stat_value' = None
    /\ console' = <<PromptLine(stat_name, today)>>
    /\ entries' = 0
    /\ typed' = <<>>
    /\ UNCHANGED besidesPrompt

\* the user types a line: the rest of the loop's body, and either the next
\* turn up to its input() or the way out of the loop and of the function
Entry(line) ==
    /\ prompt_pc = "input"
    /\ need_answer
    /\ entries < MaxEntries
    /\ entries' = entries + 1
    /\ typed' = line
    /\ IF ValueError(stat.stat_dtype, line)
       THEN /\ stat_value' = Str(line)
            /\ need_answer' = need_answer
            /\ console' = console \o <<ErrorLine(stat.stat_dtype),
                                       PromptLine(stat.stat_name,
                                                  stat.current_year)>>
            /\ prompt_pc' = "input"
       ELSE /\ stat_value' = StatDtype(stat.stat_dtype, line)
            /\ need_answer' = FALSE
            /\ console' = console
            /\ prompt_pc' = IF stat_value' = None THEN "raised" ELSE "returned"
    /\ UNCHANGED <<stat, besidesPrompt>>

\* input() finds the terminal closed: EOFError leaves the function
EndOfInput ==
    /\ prompt_pc = "input"
    /\ prompt_pc' = "eof"
    /\ UNCHANGED <<stat, need_answer, stat_value, console, entries, typed,
                   besidesPrompt>>

\* the caller has the value, or the run has ended; the locals are gone
PromptReturn ==
    /\ prompt_pc \in {"returned", "raised", "eof"}
    /\ prompt_pc' = "idle"
    /\ stat' = NoStat
    /\ need_answer' = FALSE
    /\ stat_value' = None
    /\ console' = <<>>
    /\ entries' = 0
    /\ typed' = <<>>
    /\ UNCHANGED besidesPrompt

\* ---------------------------------------------------- Team.project
\* the sum the loop compares with
Hundred == 100

\* what prompt_for_stat(..., int, ...) returns: the int of the line typed
IntOf(n) == [type |-> "int", value |-> n]

\* the percentages typed
PercentsEntered == {IntOf(n) : n \in (0 - MaxOver)..(Hundred + MaxOver)}

\* the total plays typed
PlaysEntered == {IntOf(n) : n \in 0..MaxPlays}

AddUpAlways(run, pass) == TRUE

\* not (self.run_percent + self.pass_percent != 100)
AddUp(run, pass) == run.value + pass.value = Hundred

IdleProject ==
    /\ project_pc = "idle"
    /\ total_plays = None
    /\ run_percent = None
    /\ pass_percent = None
    /\ rounds = 0

\* the loop's test, after which the body asks for the rushing percentage or
\* the function returns
ProjectLoop(run, pass) ==
    IF AddUp(run, pass)
    THEN /\ project_pc' = "returned"
         /\ rounds' = rounds
    ELSE /\ project_pc' = "run_percent"
         /\ rounds' = rounds + 1

\* project(): the averages printed, up to the prompt for the total plays
Project ==
    /\ project_pc = "idle"
    /\ project_pc' = "total_plays"
    /\ total_plays' = None
    /\ run_percent' = None
    /\ pass_percent' = None
    /\ rounds' = 0
    /\ UNCHANGED besidesProject

\* the total plays are typed; the percentages start at 0, the loop is entered
ProjectTotalPlays(entered) ==
    /\ project_pc = "total_plays"
    /\ total_plays' = entered
    /\ run_percent' = IntOf(0)
    /\ pass_percent' = IntOf(0)
    /\ ProjectLoop(run_percent', pass_percent')
    /\ UNCHANGED besidesProject

\* the rushing percentage is typed and asserted to be an int
ProjectRunPercent(entered) ==
    /\ project_pc = "run_percent"
    /\ rounds <= MaxRounds
    /\ run_percent' = entered
    /\ project_pc' = IF entered.type = "int" THEN "pass_percent" ELSE "raised"
    /\ UNCHANGED <<total_plays, pass_percent, rounds, besidesProject>>

\* the passing percentage is typed and asserted to be an int; the loop's test
ProjectPassPercent(entered) ==
    /\ project_pc = "pass_percent"
    /\ pass_percent' = entered
    /\ IF entered.type = "int"
       THEN ProjectLoop(run_percent, pass_percent')
       ELSE project_pc' = "raised" /\ rounds' = rounds
    /\ UNCHANGED <<total_plays, run_percent, besidesProject>>

\* the object is dropped; another Team is projected
ProjectAgain ==
    /\ project_pc \in {"returned", "raised"}
    /\ project_pc' = "idle"
    /\ total_plays' = None
    /\ run_percent' = None
    /\ pass_percent' = None
    /\ rounds' = 0
    /\ UNCHANGED besidesProject

\* ------------------------------------------------- save_projections
\* what Team.project left in the object: total plays, the two percentages
TeamProjections ==
    {[total_plays |-> 10, run_percent |-> 40, pass_percent |-> 60],
     [total_plays |-> 10, run_percent |-> 0, pass_percent |-> 100]}

\* what SkillPlayer.project left in the object
SkillProjections ==
    {[position |-> "WR", player_name |-> "A", games_played |-> Whole(17),
      target_share |-> Whole(50), catch_percentage |-> Whole(50),
      yards_per_catch |-> Whole(10), tds_per_rec_yd |-> Rat(1, 10),
      rush_share |-> Whole(0), yards_per_carry |-> Whole(0),
      tds_per_rush_yd |-> Whole(0)],
     [position |-> "RB", player_name |-> "C", games_played |-> Whole(17),
      target_share |-> Whole(60), catch_percentage |-> Whole(50),
      yards_per_catch |-> Whole(5), tds_per_rec_yd |-> Whole(0),
      rush_share |-> Whole(120), yards_per_carry |-> Whole(5),
      tds_per_rush_yd |-> Rat(1, 10)]}

\* what QB.project left in the object
QBProjections ==
    {[player_name |-> "D", games_started |-> Whole(10), int_percent |-> Whole(10),
      rush_percent |-> Whole(10), ypc |-> Whole(5), td_yard_ratio |-> Rat(1, 10)],
     [player_name |-> "E", games_started |-> Whole(7), int_percent |-> Whole(10),
      rush_percent |-> Whole(10), ypc |-> Whole(5), td_yard_ratio |-> Rat(1, 10)]}

\* a bound on the session: rows added to the workbook so far
Room == added < MaxRows

IdleBook ==
    /\ book_error = "none"
    /\ printed = {}
    /\ last_op = [kind |-> "none", team_name |-> "none"]
    /\ added = 0

\* the operation ends with an exception: nothing is written
BookRaise(exception, kind, team_name, warnings) ==
    /\ book_error' = exception
    /\ printed' = warnings
    /\ last_op' = [kind |-> kind, team_name |-> team_name]
    /\ book' = book
    /\ added' = added

\* the operation writes the workbook and returns
BookWritten(wb, kind, team_name, warnings, n) ==
    /\ book' = wb
    /\ book_error' = "none"
    /\ printed' = warnings
    /\ last_op' = [kind |-> kind, team_name |-> team_name]
    /\ added' = added + n

\* the team sheet made if it is not there, the workbook saved
WithTeamSheet(wb, sheet_name) ==
    IF sheet_name \in SheetNames(wb) THEN wb ELSE create_sheet(wb, sheet_name)

\* Team.save_projections: formatted_data
TeamFormattedData(projection) ==
    RowFrame(<<
        <<"Total Plays", Whole(projection.total_plays)>>,
        <<"Run Plays",
          Round2(Rat(projection.total_plays * projection.run_percent, 100))>>,
        <<"Pass Plays",
          Round2(Rat(projection.total_plays * projection.pass_percent, 100))>> >>)

\* SkillPlayer.save_projections: formatted_data
SkillFormattedData(p) ==
    RowFrame(<<
        <<"Pos", Text(p.position)>>,
        <<"Player Name", Text(p.player_name)>>,
        <<"Games Started", p.games_played>>,
        <<"Target Share", p.target_share>>,
        <<"Catch Percentage", p.catch_percentage>>,
        <<"Yards/Catch", p.yards_per_catch>>,
        <<"TDs/Receiving Yard", p.tds_per_rec_yd>>,
        <<"Rush Share", p.rush_share>>,
        <<"Yards/Carry", p.yards_per_carry>>,
        <<"TDs/Rush Yard", p.tds_per_rush_yd>> >>)

\* QB.save_projections: formatted_data
QBFormattedData(p) ==
    RowFrame(<<
        <<"Pos", Text("QB")>>,
        <<"Player Name", Text(p.player_name)>>,
        <<"Games Started", p.games_started>>,
        <<"Interception %", p.int_percent>>,
        <<"Rush Share", p.rush_percent>>,
        <<"Yards/Carry", p.ypc>>,
        <<"TDs/Yard", p.td_yard_ratio>> >>)

\* the branch that writes formatted_data alone
SavedAlone(wb, sheet_name, formatted_data) ==
    ExcelWriter(WithTeamSheet(wb, sheet_name), sheet_name, formatted_data)

\* the "Merging data in excel..." branch: the sheet is read, formatted_data
\* is put after its rows, and the sheet is replaced by the result
Merged(wb, sheet_name, formatted_data) ==
    LET with_sheet == WithTeamSheet(wb, sheet_name)
        existing_data == read_excel(with_sheet, sheet_name)
    IN  ExcelWriter(with_sheet, sheet_name, Concat(existing_data, formatted_data))

\* Team.save_projections: the workbook it leaves
TeamSaved(wb, team_name, projection) ==
    LET sheet_name == Capitalize(team_name)
        start == IF wb.exists THEN wb ELSE Workbook
        current_index ==
            IF wb.exists
            THEN Len(read_excel(WithTeamSheet(wb, sheet_name), sheet_name).rows) + 1
            ELSE 1
    IN  IF current_index > 1
        THEN Merged(start, sheet_name, TeamFormattedData(projection))
        ELSE SavedAlone(start, sheet_name, TeamFormattedData(projection))

\* Team.save_projections(filename)
TeamSaveProjections(team_name, projection) ==
    /\ Room
    /\ folder' = TRUE
    /\ BookWritten(TeamSaved(book, team_name, projection),
                   "Team.save_projections", team_name, {}, 1)
    /\ UNCHANGED besidesBook

ParentExistsCalled(dir) == dir

\* file_path.parent.exists: the method itself, which is true of any path
ParentExists(dir) == TRUE

\* the body the two players' save_projections share, formatted_data being
\* the player's row
PlayerSave(kind, team_name, formatted_data) ==
    LET sheet_name == Capitalize(team_name)
    IN  IF ParentExists(folder)
        THEN /\ folder' = folder
             /\ IF ~book.exists
                THEN BookRaise("FileNotFoundError", kind, team_name, {})
                ELSE BookWritten(Merged(book, sheet_name, formatted_data),
                                 kind, team_name, {}, 1)
        ELSE /\ folder' = TRUE
             /\ IF ~book.exists
                THEN BookRaise("FileNotFoundError", kind, team_name, {})
                ELSE BookWritten(SavedAlone(book, sheet_name, formatted_data),
                                 kind, team_name, {}, 1)

\* SkillPlayer.save_projections(filename)
SkillSaveProjections(team_name, p) ==
    /\ Room
    /\ PlayerSave("SkillPlayer.save_projections", team_name, SkillFormattedData(p))
    /\ UNCHANGED besidesBook

\* QB.save_projections(filename)
QBSaveProjections(team_name, p) ==
    /\ Room
    /\ PlayerSave("QB.save_projections", team_name, QBFormattedData(p))
    /\ UNCHANGED besidesBook

\* --------------------------------------------------- fill_team_stats
\* league-wide scoring settings
PASS_TD == 6
PASS_YD == Rat(4, 100)
RUSH_REC_TD == 6
RUSH_REC_YD == Rat(1, 10)
INTERCEPTION == 0 - 2
REC == 1

\* the games of a season
Games == 17

\* a share or a percentage is out of 100
Percent == 100

\* what the remainder row is given
OtherGamesStarted == 17
OtherYardsPerCarry == Rat(42, 10)
OtherTDsPerYard == Rat(6, 1000)
OtherCatchPercentage == 62
OtherYardsPerCatch == 11

\* the thresholds of the two passing warnings
CompletionTooHigh == 70
PassingTDTooHigh == 8

\* the statements of fill_team_stats after the sheet is read, by the line
\* each begins at
Body == <<106, 107, 110, 111, 112, 113, 114, 115, 117, 118, 119, 122, 124, 125,
          126, 129, 130, 131, 134, 135, 136, 137, 142, 143, 146, 151, 154, 157,
          159, 162, 165, 168, 172>>

\* the columns the statement reads: a KeyError when one is not in the table
Reads(line) ==
    CASE line = 106 -> {"Run Plays"}
      [] line = 107 -> {"Pass Plays"}
      [] line = 110 -> {"Player Name"}
      [] line = 114 -> {"Rush Share"}
      [] line = 115 -> {"Rush Share"}
      [] line = 119 -> {"Target Share"}
      [] line = 122 -> {"Target Share"}
      [] line = 129 -> {"Rush Share"}
      [] line = 130 -> {"Yards/Carry", "Carries"}
      [] line = 131 -> {"Rushing Yards", "TDs/Rush Yard"}
      [] line = 134 -> {"Target Share"}
      [] line = 135 -> {"Targets", "Catch Percentage"}
      [] line = 136 -> {"Receptions", "Yards/Catch"}
      [] line = 137 -> {"Receiving Yards", "TDs/Receiving Yard"}
      [] line = 142 -> {"Pos"}
      [] line = 143 -> {"Games Started"}
      [] line = 146 -> {"Passing Attempts", "Interception %"}
      [] line = 151 -> {"Receptions", "Games Started"}
      [] line = 154 -> {"Completions", "Passing Attempts"}
      [] line = 157 -> {"Completion %"}
      [] line = 159 -> {"Receiving Yards", "Games Started"}
      [] line = 162 -> {"Receiving TDs", "Games Started"}
      [] line = 165 -> {"Passing TDs", "Passing Attempts"}
      [] line = 168 -> {"Passing TD %"}
      [] line = 172 -> {"Rushing Yards", "Rushing TDs", "Receptions",
                        "Receiving Yards", "Receiving TDs", "Interceptions",
                        "Passing Yards", "Passing TDs"}
      [] OTHER -> {}

\* team_df["Pos"] == "QB"
IsQB(df) == Listed([i \in DOMAIN df.rows |-> df.rows[i]["Pos"] = Text("QB")])

StartedAlways(df) == Listed([i \in DOMAIN df.rows |-> Whole(1)])

\* the share of the season the quarterback starts
Started(df) == Divided(Series(df, "Games Started"), Whole(Games))

\* one term of the fantasy points: the column with its gaps filled with 0,
\* times the setting
Term(df, c, setting) ==
    Listed([i \in DOMAIN df.rows |-> RatMul(FillNa0(df.rows[i][c]), setting)])

FantasyPointsRushingOnly(df) ==
    SetColumn(df, "Fantasy Points", Term(df, "Rushing Yards", RUSH_REC_YD))

\* lines 172-181
FantasyPoints(df) ==
    SetColumn(df, "Fantasy Points",
        Plus(Plus(Plus(Plus(Plus(Plus(Plus(
            Term(df, "Rushing Yards", RUSH_REC_YD),
            Term(df, "Rushing TDs", Whole(RUSH_REC_TD))),
            Term(df, "Receptions", Whole(REC))),
            Term(df, "Receiving Yards", RUSH_REC_YD)),
            Term(df, "Receiving TDs", Whole(RUSH_REC_TD))),
            Term(df, "Interceptions", Whole(INTERCEPTION))),
            Term(df, "Passing Yards", PASS_YD)),
            Term(df, "Passing TDs", Whole(PASS_TD))))

\* the table after the statement; l holds the locals
Statement(df, line, l) ==
    LET i == l.other_players_index
    IN  CASE line = 111 -> LocNew(df, "Pos", Text("WR/RB/TE"))
          [] line = 112 -> LocSet(df, i, "Player Name", Text("Other Players"))
          [] line = 113 -> LocSet(df, i, "Games Started", Whole(OtherGamesStarted))
          [] line = 114 -> LocSet(df, i, "Rush Share",
                               RatSub(Whole(Percent), Sum(Series(df, "Rush Share"))))
          [] line = 117 -> LocSet(df, i, "Yards/Carry", OtherYardsPerCarry)
          [] line = 118 -> LocSet(df, i, "TDs/Rush Yard", OtherTDsPerYard)
          [] line = 119 -> LocSet(df, i, "Target Share",
                               RatSub(Whole(Percent), Sum(Series(df, "Target Share"))))
          [] line = 124 -> LocSet(df, i, "Catch Percentage", Whole(OtherCatchPercentage))
          [] line = 125 -> LocSet(df, i, "Yards/Catch", Whole(OtherYardsPerCatch))
          [] line = 126 -> LocSet(df, i, "TDs/Receiving Yard", OtherTDsPerYard)
          [] line = 129 -> SetColumn(df, "Carries",
                               Scaled(Divided(Series(df, "Rush Share"), Whole(Percent)),
                                      l.run_plays))
          [] line = 130 -> SetColumn(df, "Rushing Yards",
                               Times(Series(df, "Yards/Carry"), Series(df, "Carries")))
          [] line = 131 -> SetColumn(df, "Rushing TDs",
                               Times(Series(df, "Rushing Yards"),
                                     Series(df, "TDs/Rush Yard")))
          [] line = 134 -> SetColumn(df, "Targets",
                               Scaled(Divided(Series(df, "Target Share"), Whole(Percent)),
                                      l.pass_plays))
          [] line = 135 -> SetColumn(df, "Receptions",
                               Divided(Times(Series(df, "Targets"),
                                             Series(df, "Catch Percentage")),
                                       Whole(Percent)))
          [] line = 136 -> SetColumn(df, "Receiving Yards",
                               Times(Series(df, "Receptions"), Series(df, "Yards/Catch")))
          [] line = 137 -> SetColumn(df, "Receiving TDs",
                               Times(Series(df, "Receiving Yards"),
                                     Series(df, "TDs/Receiving Yard")))
          [] line = 143 -> SetWhere(df, l.is_qb, "Passing Attempts",
                               Scaled(Started(df), l.pass_plays))
          [] line = 146 -> SetWhere(df, l.is_qb, "Interceptions",
                               Divided(Times(Series(df, "Passing Attempts"),
                                             Series(df, "Interception %")),
                                       Whole(Percent)))
          [] line = 151 -> SetWhere(df, l.is_qb, "Completions",
                               Scaled(Started(df), Sum(Series(df, "Receptions"))))
          [] line = 154 -> SetWhere(df, l.is_qb, "Completion %",
                               Scaled(Over(Series(df, "Completions"),
                                           Series(df, "Passing Attempts")),
                                      Whole(Percent)))
          [] line = 159 -> SetWhere(df, l.is_qb, "Passing Yards",
                               Scaled(Started(df), Sum(Series(df, "Receiving Yards"))))
          [] line = 162 -> SetWhere(df, l.is_qb, "Passing TDs",
                               Scaled(Started(df), Sum(Series(df, "Receiving TDs"))))
          [] line = 165 -> SetWhere(df, l.is_qb, "Passing TD %",
                               Scaled(Over(Series(df, "Passing TDs"),
                                           Series(df, "Passing Attempts")),
                                      Whole(Percent)))
          [] line = 172 -> FantasyPoints(df)
          [] OTHER -> df

\* some value of the column is above the threshold
AnyAbove(df, c, threshold) ==
    \E i \in DOMAIN df.rows :
        \/ RatLess(Whole(threshold), df.rows[i][c])
        \/ (df.rows[i][c].kind = "inf" /\ ~df.rows[i][c].negative)

PrintedNothing(df, line, l) == {}

\* what the statement prints
Printed(df, line, l) ==
    CASE line = 115 /\ RatLess(df.rows[l.other_players_index]["Rush Share"], Whole(0))
           -> {"Too many carries allocated"}
      [] line = 122 /\ RatLess(df.rows[l.other_players_index]["Target Share"], Whole(0))
           -> {"Too many targets allocated"}
      [] line = 157 /\ AnyAbove(df, "Completion %", CompletionTooHigh)
           -> {"Completion percentage too high"}
      [] line = 168 /\ AnyAbove(df, "Passing TD %", PassingTDTooHigh)
           -> {"Passing TD percentage too high"}
      [] OTHER -> {}

\* the locals after the statement
Locals(df, line, l) ==
    CASE line = 106 -> [l EXCEPT !.run_plays = df.rows[1]["Run Plays"]]
      [] line = 107 -> [l EXCEPT !.pass_plays = df.rows[1]["Pass Plays"]]
      [] line = 110 -> [l EXCEPT !.other_players_index = Len(df.rows) + 1]
      [] line = 142 -> [l EXCEPT !.is_qb = IsQB(df)]
      [] line \in {115, 122, 157, 168} ->
             [l EXCEPT !.printed = @ \cup Printed(df, line, l)]
      [] OTHER -> l

\* the run of fill_team_stats as it starts on the sheet read
Start(team_df) ==
    [team_df |-> team_df,
     locals |-> [run_plays |-> nan, pass_plays |-> nan, other_players_index |-> 0,
                 is_qb |-> <<>>, printed |-> {}],
     raised |-> "none"]

\* one statement of the run
Step(run, line) ==
    IF ~(Reads(line) \subseteq Columns(run.team_df))
    THEN [run EXCEPT !.raised = "KeyError"]
    ELSE [team_df |-> Statement(run.team_df, line, run.locals),
          locals |-> Locals(run.team_df, line, run.locals),
          raised |-> "none"]

\* the statements Body[lo] .. Body[hi] in order, up to the first that raises:
\* the first half of them, then the second on what the first leaves
RECURSIVE Run(_, _, _)
Run(run, lo, hi) ==
    IF run.raised # "none" THEN run
    ELSE IF lo = hi THEN Step(run, Body[lo])
    ELSE LET mid == (lo + hi) \div 2
         IN  CHOOSE end \in {Run(half, mid + 1, hi) : half \in {Run(run, lo, mid)}} :
                 TRUE

\* the body of fill_team_stats on the sheet read
Filled(team_df) == Run(Start(team_df), 1, Len(Body))

\* fill_team_stats(team_name, filename)
FillTeamStatsCall(team_name) ==
    LET sheet_name == Capitalize(team_name)
        kind == "fill_team_stats"
    IN  /\ folder' = folder
        /\ IF ~book.exists
           THEN BookRaise("FileNotFoundError", kind, team_name, {})
           ELSE IF sheet_name \notin SheetNames(book)
           THEN BookRaise("ValueError", kind, team_name, {})
           ELSE \E run \in {Filled(read_excel(book, sheet_name))} :
                    IF run.raised # "none"
                    THEN BookRaise(run.raised, kind, team_name, run.locals.printed)
                    ELSE BookWritten(ExcelWriter(book, sheet_name, run.team_df),
                                     kind, team_name, run.locals.printed, 1)

\* fill_team_stats called on its own
FillTeamStats(team_name) ==
    /\ Room
    /\ FillTeamStatsCall(team_name)
    /\ UNCHANGED besidesBook

\* ------------------------------------------- create_fantasy_rankings
\* the positions ranked, in the order of the loop
RankedPositions == <<"QB", "WR", "RB", "TE">>

\* the columns create_fantasy_rankings reads of a team's sheet
RankingColumns == <<"Player Name", "Fantasy Points">>

\* the rows of a sequence that pass the test, in their order
RECURSIVE Where(_, _)
Where(rows, mask) ==
    IF rows = <<>> THEN <<>>
    ELSE LET n == Len(rows)
             front == Where(SubSeq(rows, 1, n - 1), SubSeq(mask, 1, n - 1))
         IN  IF mask[n] THEN Append(front, rows[n]) ELSE front

\* current_team.loc[is_pos, ["Player Name", "Fantasy Points"]]
Selection(current_team, pos) ==
    LET is_pos == Listed([i \in DOMAIN current_team.rows |->
                            current_team.rows[i]["Pos"] = Text(pos)])
        chosen == Where(current_team.rows, is_pos)
    IN  [columns |-> RankingColumns,
         rows |-> Listed([i \in DOMAIN chosen |->
                            [c \in {"Player Name", "Fantasy Points"} |-> chosen[i][c]]])]

\* the loop over the teams: rankings_df before it is sorted
RECURSIVE Gathered(_, _, _)
Gathered(wb, pos, n) ==
    IF n = 0 THEN EmptyFrame
    ELSE Concat(Gathered(wb, pos, n - 1),
                Selection(read_excel(wb, Capitalize(teams[n])), pos))

SortValuesNone(df) == {df}

\* a comes before b in descending order; an empty value comes last
Before(a, b) == IsNum(a) /\ (RatLess(b, a) \/ ~IsNum(b))

\* sort_values("Fantasy Points", ascending=False): the rows in an order in
\* which none comes after a row it is before; the sort is not stable, so
\* equal rows come in any order
SortValues(df) ==
    LET n == Len(df.rows)
        by == [i \in 1..n |-> df.rows[i]["Fantasy Points"]]
        orders == {p \in [1..n -> 1..n] :
                     /\ \A i, j \in 1..n : i # j => p[i] # p[j]
                     /\ \A i, j \in 1..n : i < j => ~Before(by[p[j]], by[p[i]])}
    IN  {[columns |-> df.columns, rows |-> [i \in 1..n |-> df.rows[p[i]]]] :
           p \in orders}

\* what stops the loop over the teams at the first position: the first
\* team whose sheet is not there or lacks a column read
RECURSIVE RankingError(_, _)
RankingError(wb, n) ==
    IF n > Len(teams) THEN "none"
    ELSE IF Capitalize(teams[n]) \notin SheetNames(wb) THEN "ValueError"
    ELSE IF ~({"Pos", "Player Name", "Fantasy Points"}
                \subseteq Columns(read_excel(wb, Capitalize(teams[n]))))
    THEN "KeyError"
    ELSE RankingError(wb, n + 1)

\* the sheet of a position written into the workbook
Ranking(wb, pos, rankings_df) == ExcelWriter(wb, pos, rankings_df)

\* create_fantasy_rankings(filename, teams)
CreateFantasyRankingsCall ==
    LET kind == "create_fantasy_rankings"
    IN  /\ folder' = folder
        /\ IF ~book.exists
           THEN BookRaise("FileNotFoundError", kind, "all", {})
           ELSE IF RankingError(book, 1) # "none"
           THEN BookRaise(RankingError(book, 1), kind, "all", {})
           ELSE \E qb \in SortValues(Gathered(book, "QB", Len(teams))),
                   wr \in SortValues(Gathered(book, "WR", Len(teams))),
                   rb \in SortValues(Gathered(book, "RB", Len(teams))),
                   te \in SortValues(Gathered(book, "TE", Len(teams))) :
                    BookWritten(
                        Ranking(Ranking(Ranking(Ranking(book, "QB", qb), "WR", wr),
                                        "RB", rb), "TE", te),
                        kind, "all", {}, 0)

\* create_fantasy_rankings called on its own
CreateFantasyRankings ==
    /\ CreateFantasyRankingsCall
    /\ UNCHANGED besidesBook

\* ---------------------------------------- fetch_data_stat, the calls
NoFetch == [pc |-> "idle"]

\* a call with its arguments, before it runs
Called(stat_html, stat_default_value, stat_dtype, return_html) ==
    [pc |-> "called", stat_html |-> stat_html,
     stat_default_value |-> stat_default_value, stat_dtype |-> stat_dtype,
     return_html |-> return_html]

FetchCalls ==
    {Called(h, d, t, r) : h \in RowCells, d \in DefaultValues, t \in Dtypes,
                          r \in BOOLEAN}

\* the call runs
FetchDataStat ==
    /\ fetch.pc = "called"
    /\ LET out == fetch_data_stat(fetch.stat_html, fetch.stat_default_value,
                                  fetch.stat_dtype, fetch.return_html)
       IN  fetch' = [pc |-> IF out.raised = "none" THEN "returned" ELSE "raised",
                     stat_html |-> fetch.stat_html,
                     stat_default_value |-> fetch.stat_default_value,
                     stat_dtype |-> fetch.stat_dtype,
                     return_html |-> fetch.return_html,
                     out |-> out]
    /\ UNCHANGED besidesFetch

\* ------------------------------------------ SkillPlayer.__init__, the years
\* the years of the index, oldest first
HistoryYears == 1..WindowBack

\* team.historical_data.loc[year, "run_plays"]
TeamRunPlays == 4

NoSkillPlayer ==
    [pc |-> "idle", year |-> 0, historical_data |-> <<>>,
     projections_exist |-> FALSE, error |-> "none", cell |-> None]

\* the loop goes on to the next year, or the constructor ends
SkillNextYear(p) ==
    IF p.year = WindowBack
    THEN [p EXCEPT !.pc = "done", !.projections_exist = TRUE]
    ELSE [p EXCEPT !.pc = "row", !.year = p.year + 1]

\* the constructor has the table: the loop starts
SkillHistory ==
    /\ skill_player.pc = "idle"
    /\ skill_player' = [skill_player EXCEPT
                          !.pc = "row", !.year = 1,
                          !.historical_data = [y \in HistoryYears |-> <<>>]]
    /\ UNCHANGED besidesSkill

\* lines 98-148: the season's row is looked up; without one the year is skipped
SkillRow(found) ==
    /\ skill_player.pc = "row"
    /\ skill_player' =
         IF ~found THEN SkillNextYear([skill_player EXCEPT !.cell = None])
         ELSE [skill_player EXCEPT !.pc = "rec_yds", !.cell = None]
    /\ UNCHANGED besidesSkill

\* a stat of the year is recorded
Recorded(p, column, v) ==
    [p EXCEPT !.historical_data[p.year] = (column :> v) @@ @]

\* the constructor ends with an exception
SkillRaise(p, exception) == [p EXCEPT !.pc = "raised", !.error = exception]

\* lines 150-171: receiving yards and TDs/rec_yard
SkillRecYds(stat_html, td_html) ==
    /\ skill_player.pc = "rec_yds"
    /\ LET p == [skill_player EXCEPT !.cell = stat_html]
           rec_yds == fetch_data_stat(stat_html, [type |-> "int", value |-> 0],
                                      "float", FALSE)
           rec_td == fetch_data_stat(td_html, [type |-> "int", value |-> 0],
                                     "int", FALSE)
       IN  skill_player' =
             IF rec_yds.raised # "none" THEN SkillRaise(p, rec_yds.raised)
             ELSE IF rec_yds.value.type # "float" THEN SkillRaise(p, "AssertionError")
             ELSE IF ~RatLess(Whole(0), Number(rec_yds.value))
             THEN [Recorded(p, "TDs/rec_yard", Whole(0)) EXCEPT !.pc = "rush_att"]
             ELSE IF rec_td.raised # "none" THEN SkillRaise(p, rec_td.raised)
             ELSE IF rec_td.value.type # "int" THEN SkillRaise(p, "AssertionError")
             ELSE [Recorded(p, "TDs/rec_yard",
                            RatDiv(Number(rec_td.value), Number(rec_yds.value)))
                     EXCEPT !.pc = "rush_att"]
    /\ UNCHANGED besidesSkill

\* lines 173-185: rushing attempts and rush share
SkillRushAtt(stat_html) ==
    /\ skill_player.pc = "rush_att"
    /\ LET p == [skill_player EXCEPT !.cell = stat_html]
           rushing_attempts ==
               fetch_data_stat(stat_html, [type |-> "int", value |-> 0], "float", FALSE)
       IN  skill_player' =
             IF rushing_attempts.raised # "none"
             THEN SkillRaise(p, rushing_attempts.raised)
             ELSE IF rushing_attempts.value.type # "float"
             THEN SkillRaise(p, "AssertionError")
             ELSE [Recorded(p, "rush share",
                            RatMul(RatDiv(Number(rushing_attempts.value),
                                          Whole(TeamRunPlays)), Whole(Percent)))
                     EXCEPT !.pc = "rush_yds"]
    /\ UNCHANGED besidesSkill

\* lines 187-213: rushing yards and tds/rush_yard, the last stat of the year
SkillRushYds(stat_html, td_html) ==
    /\ skill_player.pc = "rush_yds"
    /\ LET p == [skill_player EXCEPT !.cell = stat_html]
           rush_yds == fetch_data_stat(stat_html, [type |-> "int", value |-> 0],
                                       "float", FALSE)
           rush_td == fetch_data_stat(td_html, [type |-> "int", value |-> 0],
                                      "int", FALSE)
       IN  skill_player' =
             IF rush_yds.raised # "none" THEN SkillRaise(p, rush_yds.raised)
             ELSE IF rush_yds.value.type # "float" THEN SkillRaise(p, "AssertionError")
             ELSE IF ~RatLess(Whole(0), Number(rush_yds.value))
             THEN SkillNextYear(Recorded(p, "tds/rush_yard", Whole(0)))
             ELSE IF rush_td.raised # "none" THEN SkillRaise(p, rush_td.raised)
             ELSE IF rush_td.value.type # "int" THEN SkillRaise(p, "AssertionError")
             ELSE SkillNextYear(Recorded(p, "tds/rush_yard",
                      RatDiv(Number(rush_td.value), Number(rush_yds.value))))
    /\ UNCHANGED besidesSkill

\* ------------------------------------------------ QB.__init__, the years
NoQuarterback ==
    [pc |-> "idle", year |-> 0, historical_data |-> <<>>,
     projections_exist |-> FALSE, error |-> "none", printed |-> <<>>,
     passing_row |-> TRUE, rushing_row |-> TRUE]

\* the texts of the cells of a quarterback's rows
QBCellTexts == {<<>>, <<"0">>, <<"1">>, <<"1", "1">>}

\* the constructor has the rushing table: the loop starts
QBHistory ==
    /\ quarterback.pc = "idle"
    /\ quarterback' = [quarterback EXCEPT
                         !.pc = "year", !.year = 1,
                         !.historical_data = [y \in HistoryYears |-> <<>>]]
    /\ UNCHANGED besidesQB

\* the loop goes on to the next year, or the constructor ends
QBNextYear(q) ==
    IF q.year = WindowBack
    THEN [q EXCEPT !.pc = "done", !.projections_exist = TRUE]
    ELSE [q EXCEPT !.year = q.year + 1]

\* lines 174-234: one year of the loop; passing_row and rushing_row tell
\* whether the page has the year's row in the table, pass_att and rush_yds
\* are the texts of two of the cells read
QBYear(passing_row, rushing_row, pass_att, rush_yds) ==
    /\ quarterback.pc = "year"
    /\ LET q == [quarterback EXCEPT !.passing_row = passing_row,
                                    !.rushing_row = rushing_row,
                                    !.printed = <<>>]
       IN  quarterback' =
             IF ~passing_row
             THEN [q EXCEPT !.pc = "raised", !.error = "AssertionError"]
             ELSE IF ~rushing_row \/ ~passing_row
             THEN QBNextYear([q EXCEPT !.printed = <<"does not have data for", q.year>>])
             ELSE IF ValueError("float", pass_att) \/ ValueError("float", rush_yds)
             THEN [q EXCEPT !.pc = "raised", !.error = "ValueError"]
             ELSE IF Number(float(rush_yds)) = Whole(0)
             THEN [q EXCEPT !.pc = "raised", !.error = "ZeroDivisionError"]
             ELSE QBNextYear([q EXCEPT !.historical_data[q.year] =
                      [pass_att |-> Number(float(pass_att)),
                       tds_per_rush_yard |->
                           RatDiv(Whole(1), Number(float(rush_yds)))]])
    /\ UNCHANGED besidesQB

\* ------------------------------------------------------------ main
\* a call main has made, directly or through project_position and
\* project_player: the function, the team and position it is for, and the
\* pages of the site it consulted (requested or loaded from the cache)
Call(name, team_name, position, pages) ==
    [call |-> name, team_name |-> team_name, position |-> position, pages |-> pages]

NoDriver ==
    [pc |-> "idle", team |-> 0, position |-> 0, players |-> 0,
     selected |-> <<>>, projections_exist |-> FALSE, declined |-> {},
     calls |-> <<>>]

\* a bound on the session: players constructed so far
MorePlayers == driver.players < MaxPlayers

\* the players of the position the operator can select: those there are
\* projections for
Selectable(position) ==
    IF position = "QB" THEN QBProjections
    ELSE {p \in SkillProjections : p.position = position}

\* main ends with the exception of one of its calls
MainRaise(d) == [d EXCEPT !.pc = "raised"]

\* the loop over the teams goes on to the next team, or ends
NextTeam(d) ==
    IF d.team = Len(teams) THEN [d EXCEPT !.pc = "rankings"]
    ELSE [d EXCEPT !.pc = "team_prompt", !.team = d.team + 1, !.position = 0]

NextPositionNone(d) == [d EXCEPT !.pc = "fill"]

\* the loop over Positions goes on to the next position, or ends
NextPosition(d) ==
    IF d.position = Len(Positions) THEN [d EXCEPT !.pc = "fill"]
    ELSE [d EXCEPT !.pc = "project_position", !.position = d.position + 1]

\* main(filename, teams) is called
Main ==
    /\ driver.pc = "idle"
    /\ driver' = [NoDriver EXCEPT !.pc = "team_prompt", !.team = 1]
    /\ UNCHANGED <<bookVars, besidesMain>>

\* lines 56-58: "Would you like to project team ...?", and on "y" Team(team_name),
\* which returns or raises
MainTeam(answer, constructed) ==
    /\ driver.pc = "team_prompt"
    /\ LET team_name == teams[driver.team]
           called == [driver EXCEPT
                        !.calls = Append(@, Call("Team", team_name, "", {"team"}))]
       IN  driver' =
             IF answer # "y"
             THEN NextTeam([driver EXCEPT !.declined = @ \cup {team_name}])
             ELSE IF ~constructed THEN MainRaise(called)
             ELSE [called EXCEPT !.pc = "team_level_prompt"]
    /\ UNCHANGED <<bookVars, besidesMain>>

\* lines 59-64: "Do you need to do team-level projections ...?", and on "y"
\* team.project() and team.save_projections(filename)
MainTeamLevel(answer, projection) ==
    /\ driver.pc = "team_level_prompt"
    /\ LET team_name == teams[driver.team]
           d == [driver EXCEPT !.position = 0]
       IN  IF answer # "y"
           THEN /\ driver' = NextPosition(d)
                /\ UNCHANGED bookVars
           ELSE /\ Room
                /\ folder' = TRUE
                /\ BookWritten(TeamSaved(book, team_name, projection),
                               "Team.save_projections", team_name, {}, 1)
                /\ driver' = NextPosition(
                     [d EXCEPT !.calls = @ \o
                        <<Call("Team.project", team_name, "", {}),
                          Call("Team.save_projections", team_name, "", {})>>])
    /\ UNCHANGED besidesMain

\* project_position, lines 75-84: the class is chosen and the operator is
\* asked "Do you need to do ... projections for ...?"
MainProjectPosition(answer) ==
    /\ driver.pc = "project_position"
    /\ LET team_name == teams[driver.team]
           called == [driver EXCEPT
                        !.calls = Append(@, Call("project_position", team_name,
                                                 Positions[driver.position], {}))]
       IN  /\ answer = "y" => MorePlayers
           /\ driver' = IF answer = "y" THEN [called EXCEPT !.pc = "project_player"]
                         ELSE NextPosition(called)
    /\ UNCHANGED <<bookVars, besidesMain>>

PagesConsultedBoth(selected) == {"roster", "player"}

\* the pages a player's constructor consults: the roster, and the page of the
\* player selected if there is one
PagesConsulted(selected) ==
    IF selected = NoPlayer THEN {"roster"} ELSE {"roster", "player"}

\* self.projections_exist as the constructor leaves it
ProjectionsExist(selected) == selected # NoPlayer

\* the class project_position chose
PlayerClass(position) == IF position = "QB" THEN "QB" ELSE "SkillPlayer"

\* project_player, lines 94-100: the player is constructed, the roster
\* consulted and a player of the position selected or none, and the page of the
\* one selected consulted; the constructor returns or raises; if
\* projections_exist, player.project() and player.save_projections(filename)
ProjectPlayer(selected, constructed) ==
    /\ driver.pc = "project_player"
    /\ selected \in Selectable(Positions[driver.position]) \cup {NoPlayer}
    /\ LET team_name == teams[driver.team]
           position == Positions[driver.position]
           class == PlayerClass(position)
           projections_exist == ProjectionsExist(selected)
           pages == PagesConsulted(selected)
           called == [driver EXCEPT
                        !.players = @ + 1,
                        !.selected = selected,
                        !.projections_exist = constructed /\ projections_exist,
                        !.calls = Append(@, Call(class, team_name, position, pages))]
           saved == [called EXCEPT
                       !.calls = @ \o
                         <<Call(class \o ".project", team_name, position, {}),
                           Call(class \o ".save_projections", team_name, position, {})>>]
           formatted_data == IF class = "QB" THEN QBFormattedData(selected)
                             ELSE SkillFormattedData(selected)
       IN  IF ~constructed
           THEN /\ driver' = MainRaise(called)
                /\ UNCHANGED bookVars
           ELSE IF ~projections_exist
           THEN /\ driver' = [called EXCEPT !.pc = "another_prompt"]
                /\ UNCHANGED bookVars
           ELSE /\ Room
                /\ PlayerSave(class \o ".save_projections", team_name, formatted_data)
                /\ driver' = IF book_error' # "none" THEN MainRaise(saved)
                             ELSE [saved EXCEPT !.pc = "another_prompt"]
    /\ UNCHANGED besidesMain

\* project_position, lines 86-91: "Would you like to project another ...?"
MainAnother(answer) ==
    /\ driver.pc = "another_prompt"
    /\ answer = "y" => MorePlayers
    /\ driver' = IF answer = "y" THEN [driver EXCEPT !.pc = "project_player"]
                 ELSE NextPosition(driver)
    /\ UNCHANGED <<bookVars, besidesMain>>

\* line 68: fill_team_stats(team_name, filename)
MainFill ==
    /\ driver.pc = "fill"
    /\ Room
    /\ FillTeamStatsCall(teams[driver.team])
    /\ LET called == [driver EXCEPT
                        !.calls = Append(@, Call("fill_team_stats",
                                                 teams[driver.team], "", {}))]
       IN  driver' = IF book_error' # "none" THEN MainRaise(called)
                     ELSE NextTeam(called)
    /\ UNCHANGED besidesMain

\* line 70: create_fantasy_rankings(filename, teams)
MainRankings ==
    /\ driver.pc = "rankings"
    /\ CreateFantasyRankingsCall
    /\ LET called == [driver EXCEPT
                        !.calls = Append(@, Call("create_fantasy_rankings", "all", "", {}))]
       IN  driver' = IF book_error' # "none" THEN MainRaise(called)
                     ELSE [called EXCEPT !.pc = "returned"]
    /\ UNCHANGED besidesMain

\* ------------------------------------------------------ specification
Init ==
    /\ InitCache /\ InitPrompt /\ IdleProject
    /\ IdleBook /\ book = NoFile /\ folder = FALSE
    /\ fetch = NoFetch /\ skill_player = NoSkillPlayer /\ quarterback = NoQuarterback
    /\ driver = NoDriver

Next ==
    \/ \E n \in TeamNames, uc \in BOOLEAN, sr \in BOOLEAN : Team(n, uc, sr)
    \/ TeamCacheHit
    \/ TeamFetched
    \/ HandleRequestGet
    \/ HandleRequestReturn
    \/ \E p \in {Positions[i] : i \in DOMAIN Positions}, uc \in BOOLEAN, sr \in BOOLEAN :
          GetPlayer(p, uc, sr)
    \/ \E p \in SkillPositions, uc \in BOOLEAN, sr \in BOOLEAN : SkillPlayer(p, uc, sr)
    \/ RosterCacheHit
    \/ RosterFetched
    \/ PlayerCacheHit
    \/ PlayerFetched
    \/ \E uc \in BOOLEAN, sr \in BOOLEAN : QB(uc, sr)
    \/ QBRequestsGet
    \/ QBRequestReturn
    \/ QBRosterCacheHit
    \/ QBRosterFetched
    \/ QBPlayerCacheHit
    \/ QBPlayerFetched
    \/ Return
    \/ Rerun
    \/ NewYear

Spec == Init /\ [][Next]_vars

\* the prompt loop on its own
NextPrompt ==
    \/ \E c \in StatCalls : PromptForStat(c[1], c[2])
    \/ \E line \in Lines : Entry(line)
    \/ EndOfInput
    \/ PromptReturn

SpecPrompt == Init /\ [][NextPrompt]_vars

\* the start with no page cached by an earlier run
InitCold == Init /\ files = EarlierCache(0)

\* Team.project on its own
NextProject ==
    \/ Project
    \/ \E entered \in PlaysEntered : ProjectTotalPlays(entered)
    \/ \E entered \in PercentsEntered : ProjectRunPercent(entered)
    \/ \E entered \in PercentsEntered : ProjectPassPercent(entered)
    \/ ProjectAgain

SpecProject == InitCold /\ [][NextProject]_vars

\* the workbook an earlier run left: the sheet of the second team with its
\* team row, a receiver and a quarterback, and filled
EarlierBook ==
    LET sheet_name == Capitalize(teams[2])
        projection == CHOOSE t \in TeamProjections : t.run_percent > 0
        receiver == CHOOSE p \in SkillProjections : p.position = "WR"
        passer == CHOOSE p \in QBProjections : p.player_name = "D"
        b1 == TeamSaved(NoFile, teams[2], projection)
        b2 == Merged(b1, sheet_name, SkillFormattedData(receiver))
        b3 == Merged(b2, sheet_name, QBFormattedData(passer))
    IN  ExcelWriter(b3, sheet_name, Filled(read_excel(b3, sheet_name)).team_df)

\* the workbook's start: no file, its folder there or not, or the workbook
\* of an earlier run
InitBook ==
    /\ InitCache /\ files = EarlierCache(0)
    /\ InitPrompt
    /\ IdleProject
    /\ IdleBook
    /\ \/ book = NoFile /\ folder \in BOOLEAN
       \/ book = EarlierBook /\ folder = TRUE
    /\ fetch = NoFetch /\ skill_player = NoSkillPlayer /\ quarterback = NoQuarterback
    /\ driver = NoDriver

\* the operations on the workbook
NextBook ==
    \/ \E i \in DOMAIN teams, projection \in TeamProjections :
          TeamSaveProjections(teams[i], projection)
    \/ \E i \in DOMAIN teams, p \in SkillProjections :
          SkillSaveProjections(teams[i], p)
    \/ \E i \in DOMAIN teams, p \in QBProjections :
          QBSaveProjections(teams[i], p)
    \/ \E i \in DOMAIN teams : FillTeamStats(teams[i])
    \/ CreateFantasyRankings

SpecBook == InitBook /\ [][NextBook]_vars

\* fetch_data_stat on its own: each call with its arguments
InitFetch ==
    /\ InitCache /\ files = EarlierCache(0)
    /\ InitPrompt /\ IdleProject
    /\ IdleBook /\ book = NoFile /\ folder = FALSE
    /\ fetch \in FetchCalls
    /\ skill_player = NoSkillPlayer
    /\ quarterback = NoQuarterback
    /\ driver = NoDriver

NextFetch == FetchDataStat

SpecFetch == InitFetch /\ [][NextFetch]_vars

\* the loop of SkillPlayer.__init__ on its own
NextSkill ==
    \/ SkillHistory
    \/ \E found \in BOOLEAN : SkillRow(found)
    \/ \E stat_html \in RowCells, td_html \in RowCells : SkillRecYds(stat_html, td_html)
    \/ \E stat_html \in RowCells : SkillRushAtt(stat_html)
    \/ \E stat_html \in RowCells, td_html \in RowCells : SkillRushYds(stat_html, td_html)

SpecSkill == InitCold /\ [][NextSkill]_vars

\* the loop of QB.__init__ on its own
NextQB ==
    \/ QBHistory
    \/ \E passing_row \in BOOLEAN, rushing_row \in BOOLEAN,
          pass_att \in QBCellTexts, rush_yds \in QBCellTexts :
          QBYear(passing_row, rushing_row, pass_att, rush_yds)

SpecQB == InitCold /\ [][NextQB]_vars

\* main on its own, on no workbook or on the workbook of an earlier run
Answers == {"y", "n"}

NextMain ==
    \/ Main
    \/ \E answer \in Answers, constructed \in BOOLEAN : MainTeam(answer, constructed)
    \/ \E answer \in Answers, projection \in TeamProjections :
          MainTeamLevel(answer, projection)
    \/ \E answer \in Answers : MainProjectPosition(answer)
    \/ \E selected \in QBProjections \cup SkillProjections \cup {NoPlayer},
          constructed \in BOOLEAN : ProjectPlayer(selected, constructed)
    \/ \E answer \in Answers : MainAnother(answer)
    \/ MainFill
    \/ MainRankings

SpecMain == InitBook /\ [][NextMain]_vars

\* team.project() and then team.save_projections(filename), as main calls
\* them: what project left in the object is what is saved
Projected ==
    [total_plays |-> total_plays.value, run_percent |-> run_percent.value,
     pass_percent |-> pass_percent.value]

ProjectedSave ==
    /\ project_pc = "returned"
    /\ TeamSaveProjections(teams[1], Projected)

NextTeamSheet ==
    \/ Project
    \/ \E entered \in PlaysEntered : ProjectTotalPlays(entered)
    \/ \E entered \in PercentsEntered : ProjectRunPercent(entered)
    \/ \E entered \in PercentsEntered : ProjectPassPercent(entered)
    \/ ProjectedSave

SpecTeamSheet == InitBook /\ [][NextTeamSheet]_vars

\* ============================================================ claims
\* the construction in progress, or just returned, is Team(...)
TeamDone == pc = "done" /\ op.kind = "Team"

\* the fetch site in progress finds its file and may use it
AtCacheHit == pc = "consult" /\ args.use_cache /\ SitePath \in DOMAIN files

\* C1: when Team(name), constructed with use_cache and save_results both true,
\* has returned, team_<year>.html exists under CACHE_DIR/<name> for every year
\* of the window current_year-3 .. current_year
C1_TeamPagesCached ==
    (TeamDone /\ op.use_cache /\ op.save_results)
        => \A y \in Window(op.current_year) :
              TeamPath(op.team_name, y) \in DOMAIN files

\* such a construction has returned; it found some pages cached and fetched
\* others, the current year's among them
C1_Witness ==
    /\ TeamDone /\ op.use_cache /\ op.save_results
    /\ op.current_year \in fetched
    /\ fetched # Window(op.current_year)

\* C2 as stated: at a fetch site whose file exists, with use_cache true, no
\* request is issued and the parsed document is exactly the stored content
C2_ExactContent ==
    [][AtCacheHit => (requests' = requests /\ doc' = files[SitePath])]_vars

\* C2 amended: at a fetch site whose file exists, with use_cache true, no
\* request is issued and the parsed document is the stored content as a
\* text-mode read returns it, every "\r\n" and "\r" read as "\n"
C2_ReadContent ==
    [][AtCacheHit =>
        (requests' = requests /\ doc' = UniversalNewlines(files[SitePath]))]_vars

\* an operation that made no request parsed a document read from a file that
\* holds a carriage return
C2_Witness ==
    /\ doc = <<"LF">>
    /\ nreq = 0
    /\ \E p \in DOMAIN files : files[p] = <<"CR", "LF">>

\* the rows of a construction as a later construction reads them back
ReadBack(historical_data) ==
    [y \in DOMAIN historical_data |->
        [historical_data[y] EXCEPT !.text = UniversalNewlines(@)]]

\* C3 as stated: once a Team(name) construction with save_results has
\* completed, a later Team(name) construction with use_cache makes no request
\* and has the same historical_data
C3_SameData ==
    (TeamDone /\ op.use_cache /\ last.team_name = op.team_name)
        => (fetched = {} /\ team.historical_data = last.historical_data)

\* C3 amended: once a Team(name) construction with save_results has completed,
\* a later Team(name) construction with use_cache in the same calendar year,
\* with no cache file rewritten in between, makes no request, and its
\* historical_data is the first one's with the line ends of the fetched pages
\* read back as "\n"
C3_SameYearReadBack ==
    (TeamDone /\ op.use_cache /\ last.team_name = op.team_name
       /\ last.current_year = op.current_year /\ ~rewritten)
        => (fetched = {} /\ team.historical_data = ReadBack(last.historical_data))

\* such a later construction has returned, and the first one had fetched a
\* page with a "\r\n"
C3_Witness ==
    /\ TeamDone /\ op.use_cache /\ last.team_name = op.team_name
    /\ last.current_year = op.current_year /\ ~rewritten
    /\ \E y \in DOMAIN last.historical_data :
          last.historical_data[y].text = <<"CR", "LF">>

\* C4: a cache file changes only by the write of a response of status 200;
\* a response of another status makes handle_request raise HTTPError, which
\* ends the run with the files as they were
C4_WriteOnlyAfter200 ==
    [][/\ (files' # files) =>
            (/\ pc = "fetched"
             /\ resp.status_code = HTTP_OK
             /\ files' = cache_file(files, SitePath, resp.text))
       /\ (pc = "hr_sleep" /\ resp.status_code # HTTP_OK) =>
            (pc' = "aborted" /\ error' = "HTTPError" /\ files' = files)]_vars

\* Team.__init__ was ended by HTTPError and the year's page has no file
C4_Witness ==
    /\ pc = "aborted" /\ error = "HTTPError" /\ site = "team"
    /\ resp.status_code = HTTP_NOT_FOUND
    /\ SitePath \notin DOMAIN files

\* inside handle_request, between requests.get and time.sleep
InHandleRequest == pc = "hr_sleep"

\* C5 as stated: every request made through handle_request is followed by
\* the sleep before handle_request returns or raises
C5_AlwaysSleeps ==
    (unslept /\ site \in {"team", "roster", "player"}) => InHandleRequest

\* C5 amended: every request that brings a response, of whatever status, is
\* followed by the 6-second sleep before handle_request (or QB.__init__) goes
\* on or raises; a request that raises a transport exception ends the run
\* unslept; no request of a run is made while an earlier one is unslept; a
\* cache hit makes no request and sleeps not at all
C5_SleepsAfterResponse ==
    /\ [](unslept => (pc \in {"hr_sleep", "qb_sleep"}
                        \/ (pc = "aborted" /\ error = "ConnectionError")))
    /\ []((pc \notin {"hr_sleep", "qb_sleep"} /\ error # "ConnectionError")
            => slept = SleepSeconds * nreq)
    /\ [][/\ (requests' # requests) => ~unslept
          /\ AtCacheHit => (requests' = requests /\ slept' = slept)]_vars

\* a run ended by HTTPError after two requests, each of them slept after
C5_Witness ==
    /\ pc = "aborted" /\ error = "HTTPError"
    /\ nreq = 2 /\ slept = 2 * SleepSeconds /\ ~unslept

\* C6: no step removes a cache file, and no step of an operation called with
\* use_cache true changes the content of an existing one
C6_NoEviction ==
    [][\A p \in DOMAIN files :
          /\ p \in DOMAIN files'
          /\ op.use_cache => files'[p] = files[p]]_vars

\* a player construction with use_cache true has returned after storing the
\* player's page beside the files that were there
C6_Witness ==
    /\ pc = "done" /\ op.kind \in {"SkillPlayer", "QB"}
    /\ op.use_cache /\ op.save_results
    /\ nreq >= 1
    /\ Cardinality(DOMAIN files) >= WindowBack + 3

\* C7: after Team(name), saving its results, was ended by a failed request for
\* year y, the pages it had fetched before are cached, and a construction of
\* Team(name) with use_cache requests no year before y
C7_ResumeFromCache ==
    (resume.team_name # "")
        => /\ \A y \in resume.stored :
                TeamPath(resume.team_name, y) \in DOMAIN files
           /\ (op.kind = "Team" /\ op.team_name = resume.team_name /\ op.use_cache)
                => \A y \in fetched : y >= resume.year

\* the re-run has returned: it requested year y, which had ended the run
\* before, and that run had fetched an earlier year
C7_Witness ==
    /\ TeamDone /\ op.use_cache /\ op.team_name = resume.team_name
    /\ resume.stored # {}
    /\ resume.year \in fetched

\* C8 as stated: a file loaded at a fetch site was stored for that site's own
\* target (team and year, or team, position and player name)
C8_KeysDistinct ==
    [][AtCacheHit => origin[SitePath] = SiteTarget]_vars

\* C9 as stated: an operation called with use_cache false requests each page
\* from the network; with save_results true the response replaces the file;
\* an operation called with save_results false leaves every file as it is
C9_FlagsObeyed ==
    [][/\ (pc = "consult" /\ ~op.use_cache) => requests' = requests + 1
       /\ (pc = "fetched" /\ op.save_results) =>
            files' = cache_file(files, SitePath, resp.text)
       /\ ~op.save_results => files' = files]_vars

\* the line typed is one the requested type takes
ValidEntry(stat_dtype, line) ==
    IF stat_dtype = "int" THEN IntLiteral(line) ELSE FloatLiteral(line)

\* C10: prompt_for_stat returns only a value converted to the requested
\* stat_dtype, never None, and never leaves by its own raise; a line that
\* fails conversion prints the error and shows the prompt of the same stat
\* again, the call going on and nothing else changing; a line that converts
\* ends the call at once with the value of that line, and no line before it
\* of the call did convert
C10_PromptForStat ==
    /\ [](prompt_pc # "raised")
    /\ [](prompt_pc = "returned"
            => /\ stat_value # None
               /\ stat_value.type = stat.stat_dtype
               /\ ValidEntry(stat.stat_dtype, typed)
               /\ stat_value = StatDtype(stat.stat_dtype, typed)
               /\ ~need_answer
               /\ Len(console) = 2 * entries - 1)
    /\ [](prompt_pc = "input"
            => /\ need_answer
               /\ (entries > 0 => ~ValidEntry(stat.stat_dtype, typed))
               /\ Len(console) = 2 * entries + 1
               /\ console[Len(console)]
                    = PromptLine(stat.stat_name, stat.current_year))
    /\ [][(prompt_pc = "input" /\ entries' = entries + 1)
            => IF ValidEntry(stat.stat_dtype, typed')
               THEN prompt_pc' = "returned" /\ console' = console
               ELSE /\ prompt_pc' = "input"
                    /\ console' = console
                          \o <<ErrorLine(stat.stat_dtype),
                               PromptLine(stat.stat_name, stat.current_year)>>
                    /\ UNCHANGED <<stat, need_answer, cacheVars>>]_vars

\* a float returned for a line with a point, typed after two lines that
\* float() does not take
C10_Witness ==
    /\ prompt_pc = "returned"
    /\ stat.stat_dtype = "float"
    /\ entries = 3
    /\ typed = <<".", "1">>
    /\ stat_value = [type |-> "float", num |-> 1, scale |-> 1]

\* C11: Team.project returns only with total_plays an int and the two int
\* percentages adding up to 100; it has then asked for both at least once;
\* each time both are typed and do not add up to 100 it asks for both again,
\* and when they do add up it returns at once
C11_ProjectAddsUp ==
    /\ [](project_pc = "returned"
            => /\ total_plays.type = "int"
               /\ run_percent.type = "int" /\ pass_percent.type = "int"
               /\ run_percent.value + pass_percent.value = 100
               /\ rounds >= 1)
    /\ [](project_pc # "raised")
    /\ [][(project_pc = "pass_percent" /\ project_pc' # project_pc)
            => IF run_percent.value + pass_percent'.value = 100
               THEN project_pc' = "returned" /\ rounds' = rounds
               ELSE project_pc' = "run_percent" /\ rounds' = rounds + 1]_vars
    /\ [][(project_pc = "run_percent" /\ project_pc' # project_pc)
            => project_pc' = "pass_percent"]_vars

\* returned after a first pair that did not add up: a percentage above 100
\* and one below 0 that do
C11_Witness ==
    /\ project_pc = "returned"
    /\ rounds = 2
    /\ run_percent.value > 100
    /\ pass_percent.value < 0

\* the three operations that save a projection
Saves == {"Team.save_projections", "SkillPlayer.save_projections",
          "QB.save_projections"}

\* the sheet of the team as stored, no row and no column if it is not there
StoredSheet(wb, team_name) ==
    IF wb.exists /\ Capitalize(team_name) \in SheetNames(wb)
    THEN wb.sheets[Capitalize(team_name)] ELSE EmptyFrame

\* C12: a save into a workbook that exists merges: the team's sheet keeps
\* every row it had, in the same order and with the same values under the
\* columns it had, then has exactly one new row, and every other sheet is
\* where it was and as it was
C12_SaveMerges ==
    [][(last_op'.kind \in Saves /\ book_error' = "none" /\ book.exists)
         => LET before == StoredSheet(book, last_op'.team_name)
                after == StoredSheet(book', last_op'.team_name)
            IN  /\ Len(after.rows) = Len(before.rows) + 1
                /\ \A i \in DOMAIN before.rows : \A c \in Columns(before) :
                       after.rows[i][c] = before.rows[i][c]
                /\ \A i \in DOMAIN book.names :
                       /\ book'.names[i] = book.names[i]
                       /\ book.names[i] # Capitalize(last_op'.team_name)
                            => book'.sheets[book.names[i]] = book.sheets[book.names[i]]]_vars

\* a receiver saved into a sheet that held rows, beside another team's sheet
C12_Witness ==
    /\ last_op = [kind |-> "SkillPlayer.save_projections", team_name |-> "crd"]
    /\ book_error = "none"
    /\ Len(StoredSheet(book, "crd").rows) >= 2
    /\ Len(StoredSheet(book, "atl").rows) >= 1

\* C13: fetch_data_stat returns the default value passed to it whenever the
\* cell is absent from the row or holds the empty string, for every stat_dtype
\* (and so the "NA" that SkillPlayer.__init__ passes for the team name, the
\* games and the games started).
C13_DefaultOnAbsentOrEmpty ==
    (/\ fetch.pc \in {"returned", "raised"}
     /\ ~fetch.return_html
     /\ fetch.stat_html \in {None, Tag(<<>>)})
        => /\ fetch.pc = "returned"
           /\ fetch.out.value = fetch.stat_default_value

\* the call the claim fails on: a str stat whose cell is there and empty,
\* with the default "NA", gives the empty string
C13_EmptyStrReturned ==
    /\ fetch.pc = "returned"
    /\ fetch.stat_html = Tag(<<>>)
    /\ fetch.stat_dtype = "str"
    /\ fetch.stat_default_value = Str(<<"N", "A">>)
    /\ ~fetch.return_html
    /\ fetch.out.value = Str(<<>>)

\* a component of a stored row times its weight, a missing one counting as 0
Weighted(row, c, weight) ==
    RatMul(IF row[c] = nan THEN Whole(0) ELSE row[c], weight)

\* the weighted sum of the components of a stored row
WeightedSum(row) ==
    RatAdd(RatAdd(RatAdd(RatAdd(RatAdd(RatAdd(RatAdd(
        Weighted(row, "Rushing Yards", Rat(1, 10)),
        Weighted(row, "Rushing TDs", Whole(6))),
        Weighted(row, "Receptions", Whole(1))),
        Weighted(row, "Receiving Yards", Rat(1, 10))),
        Weighted(row, "Receiving TDs", Whole(6))),
        Weighted(row, "Interceptions", Whole(0 - 2))),
        Weighted(row, "Passing Yards", Rat(4, 100))),
        Weighted(row, "Passing TDs", Whole(6)))

\* fill_team_stats has just written the sheet of its team
FillWrote == last_op.kind = "fill_team_stats" /\ book_error = "none"

\* C14: in the sheet fill_team_stats writes, the Fantasy Points of every row
\* are 0.1*Rushing Yards + 6*Rushing TDs + Receptions + 0.1*Receiving Yards
\* + 6*Receiving TDs - 2*Interceptions + 0.04*Passing Yards + 6*Passing TDs
\* of that row, a missing component counting as 0
C14_FantasyPoints ==
    [][FillWrote'
         => LET after == StoredSheet(book', last_op'.team_name)
            IN  \A i \in DOMAIN after.rows :
                    after.rows[i]["Fantasy Points"] = WeightedSum(after.rows[i])]_vars

\* a sheet filled with a quarterback who scores from passing and a row that
\* lacks components
C14_Witness ==
    /\ FillWrote
    /\ LET after == StoredSheet(book, last_op.team_name)
       IN  /\ \E i \in DOMAIN after.rows :
                 /\ after.rows[i]["Pos"] = Text("QB")
                 /\ IsNum(after.rows[i]["Passing TDs"])
                 /\ after.rows[i]["Passing TDs"] # Whole(0)
                 /\ IsNum(after.rows[i]["Fantasy Points"])
                 /\ after.rows[i]["Fantasy Points"] # Whole(0)
           /\ \E i \in DOMAIN after.rows :
                 /\ after.rows[i]["Receptions"] = nan
                 /\ after.rows[i]["Fantasy Points"] = WeightedSum(after.rows[i])

\* create_fantasy_rankings has just written its sheets
RankingsWritten == last_op.kind = "create_fantasy_rankings" /\ book_error = "none"

\* the rows of the listed teams' stored sheets with that Pos, as the pair of
\* Player Name and Fantasy Points, each with the number of times it is there
Listing(row) == [c \in {"Player Name", "Fantasy Points"} |-> row[c]]

TimesListed(wb, pos, listing) ==
    LET at == {<<n, i>> \in (DOMAIN teams) \X (1..(MaxRows + 4)) :
                 /\ i \in DOMAIN StoredSheet(wb, teams[n]).rows
                 /\ StoredSheet(wb, teams[n]).rows[i]["Pos"] = Text(pos)
                 /\ Listing(StoredSheet(wb, teams[n]).rows[i]) = listing}
    IN  Cardinality(at)

TimesRanked(sheet, listing) ==
    Cardinality({i \in DOMAIN sheet.rows : sheet.rows[i] = listing})

Listings(wb) ==
    {Listing(StoredSheet(wb, teams[n]).rows[i]) :
        <<n, i>> \in {<<n, i>> \in (DOMAIN teams) \X (1..(MaxRows + 4)) :
                        i \in DOMAIN StoredSheet(wb, teams[n]).rows}}

\* C15: create_fantasy_rankings writes for each of QB, WR, RB and TE a sheet
\* with the columns Player Name and Fantasy Points that holds exactly the rows
\* of the listed teams' sheets with that Pos, each as often as it is there,
\* no row above one with fewer Fantasy Points; no Other Players row is in any
\* of these sheets
C15_Rankings ==
    [][RankingsWritten'
         => \A k \in DOMAIN RankedPositions :
              LET pos == RankedPositions[k]
                  sheet == book'.sheets[pos]
              IN  /\ pos \in SheetNames(book')
                  /\ sheet.columns = <<"Player Name", "Fantasy Points">>
                  /\ \A i \in DOMAIN sheet.rows :
                         /\ sheet.rows[i] \in Listings(book)
                         /\ sheet.rows[i]["Player Name"] # Text("Other Players")
                  /\ \A listing \in Listings(book) :
                         TimesRanked(sheet, listing) = TimesListed(book, pos, listing)
                  /\ \A i, j \in DOMAIN sheet.rows :
                         i < j => ~RatLess(sheet.rows[i]["Fantasy Points"],
                                           sheet.rows[j]["Fantasy Points"])]_vars

\* rankings written from two filled team sheets: two receivers with different
\* points in the WR sheet, a quarterback in the QB sheet
C15_Witness ==
    /\ RankingsWritten
    /\ \A n \in DOMAIN teams :
           \E i \in DOMAIN StoredSheet(book, teams[n]).rows :
               StoredSheet(book, teams[n]).rows[i]["Player Name"] = Text("Other Players")
    /\ Len(book.sheets["WR"].rows) >= 2
    /\ RatLess(book.sheets["WR"].rows[2]["Fantasy Points"],
               book.sheets["WR"].rows[1]["Fantasy Points"])
    /\ Len(book.sheets["QB"].rows) >= 1

\* a cell whose value is zero, empty or absent
ZeroEmptyAbsent == {Tag(<<"0">>), Tag(<<>>), None}

\* the stat of the year recorded from the cell read at that place of the loop
StatColumn(at) ==
    CASE at = "rec_yds" -> "TDs/rec_yard"
      [] at = "rush_att" -> "rush share"
      [] at = "rush_yds" -> "tds/rush_yard"

\* C16: when the receiving yards, the rushing attempts or the rushing yards
\* of a season row are zero, empty or absent, SkillPlayer.__init__ records
\* TDs/rec_yard, rush share or tds/rush_yard as 0 for the year and goes on,
\* without raising
C16_ZeroEmptyAbsentRecordsZero ==
    [][(/\ skill_player.pc \in {"rec_yds", "rush_att", "rush_yds"}
        /\ skill_player'.cell \in ZeroEmptyAbsent)
         => /\ skill_player'.pc # "raised"
            /\ skill_player'.error = "none"
            /\ LET recorded == skill_player'.historical_data[skill_player.year]
               IN  /\ StatColumn(skill_player.pc) \in DOMAIN recorded
                   /\ recorded[StatColumn(skill_player.pc)] = Whole(0)]_vars

\* the constructor ended by the assertion on the type of the value, after a
\* cell that is empty or absent
C16_AssertionOnDefault ==
    /\ skill_player.pc = "raised"
    /\ skill_player.error = "AssertionError"
    /\ skill_player.cell \in {Tag(<<>>), None}

\* a literal 0 in the cell: 0 is recorded and the loop goes on
C16_LiteralZero ==
    [][(/\ skill_player.pc \in {"rec_yds", "rush_att", "rush_yds"}
        /\ skill_player'.cell = Tag(<<"0">>))
         => /\ skill_player'.pc # "raised"
            /\ skill_player'.historical_data[skill_player.year]
                   [StatColumn(skill_player.pc)] = Whole(0)]_vars

\* the year of the loop has just been gone through
QBYearDone == quarterback.pc = "year" /\ quarterback' # quarterback

\* the year was skipped: reported, nothing recorded for it, the loop going
\* on or the constructor finishing with projections_exist = True
QBSkipped ==
    /\ quarterback'.pc \in {"year", "done"}
    /\ quarterback'.error = "none"
    /\ quarterback'.printed = <<"does not have data for", quarterback.year>>
    /\ quarterback'.historical_data[quarterback.year] = <<>>
    /\ quarterback'.pc = "year" => quarterback'.year = quarterback.year + 1
    /\ quarterback'.pc = "done" => quarterback'.projections_exist

\* C17: QB.__init__ skips a year of the window for which the player has no
\* passing row or no rushing row: it reports that the player does not have
\* data for the year, leaves the year's historical data empty, goes on with
\* the remaining years and finishes with projections_exist = True
C17_YearWithoutRowSkipped ==
    [][(QBYearDone /\ (~quarterback'.passing_row \/ ~quarterback'.rushing_row))
         => QBSkipped]_vars

\* the constructor ended by the assertion on the passing row of a year
C17_AssertionOnPassingRow ==
    /\ quarterback.pc = "raised"
    /\ quarterback.error = "AssertionError"
    /\ ~quarterback.passing_row
    /\ quarterback.year = 2

\* a year with its passing row and without its rushing row is skipped
C17_RushingRowSkipped ==
    [][(QBYearDone /\ quarterback'.passing_row /\ ~quarterback'.rushing_row)
         => QBSkipped]_vars

PlayerSaves == {"SkillPlayer.save_projections", "QB.save_projections"}

\* C18: when the workbook or its parent directory does not exist yet, a
\* player's save_projections creates the missing directory and writes the
\* player's row as the first row of a new sheet of the team, and does not fail
C18_PlayerSaveCreates ==
    [][(last_op'.kind \in PlayerSaves /\ (~book.exists \/ ~folder))
         => /\ book_error' = "none"
            /\ folder'
            /\ book'.exists
            /\ LET after == StoredSheet(book', last_op'.team_name)
               IN  /\ Len(after.rows) = 1
                   /\ after.rows[1]["Pos"] \in {Text("WR"), Text("RB"), Text("QB")}]_vars

\* a player saved with no directory and no workbook: FileNotFoundError, and
\* still no directory and no workbook
C18_FileNotFound ==
    /\ last_op.kind \in PlayerSaves
    /\ book_error = "FileNotFoundError"
    /\ ~book.exists
    /\ ~folder

\* the sum of a column of a stored sheet, the empty cells left out
ColumnSum(sheet, c) == Sum(Listed([i \in DOMAIN sheet.rows |-> sheet.rows[i][c]]))

\* the rows of a stored sheet that hold a team's totals
TeamRows(sheet) == {i \in DOMAIN sheet.rows : IsNum(sheet.rows[i]["Run Plays"])}

\* C19: in the sheet fill_team_stats writes, with its Other Players row, the
\* Rush Share values sum to 100 and the Target Share values sum to 100, the
\* Carries sum to the team's Run Plays and the Targets to the team's Pass Plays
C19_SharesAndTotals ==
    [][FillWrote'
         => LET after == StoredSheet(book', last_op'.team_name)
            IN  /\ ColumnSum(after, "Rush Share") = Whole(100)
                /\ ColumnSum(after, "Target Share") = Whole(100)
                /\ \E i \in TeamRows(after) :
                       /\ ColumnSum(after, "Carries") = after.rows[i]["Run Plays"]
                       /\ ColumnSum(after, "Targets") = after.rows[i]["Pass Plays"]]_vars

\* the shares alone: they sum to 100 in every sheet fill_team_stats writes
C19_SharesSumTo100 ==
    [][FillWrote'
         => LET after == StoredSheet(book', last_op'.team_name)
            IN  /\ ColumnSum(after, "Rush Share") = Whole(100)
                /\ ColumnSum(after, "Target Share") = Whole(100)]_vars

\* a sheet filled whose first row is a player's: the team's Run Plays are
\* positive and every Carries cell is empty
C19_TotalsLost ==
    /\ FillWrote
    /\ LET after == StoredSheet(book, last_op.team_name)
       IN  /\ ~IsNum(after.rows[1]["Run Plays"])
           /\ \E i \in TeamRows(after) : RatLess(Whole(0), after.rows[i]["Run Plays"])
           /\ \A i \in DOMAIN after.rows : after.rows[i]["Carries"] = nan

\* with the team's totals in the first row of the sheet, the Carries sum to
\* its Run Plays and the Targets to its Pass Plays
C19_TeamRowFirst ==
    [][(FillWrote' /\ 1 \in TeamRows(StoredSheet(book', last_op'.team_name)))
         => LET after == StoredSheet(book', last_op'.team_name)
            IN  /\ ColumnSum(after, "Carries") = after.rows[1]["Run Plays"]
                /\ ColumnSum(after, "Targets") = after.rows[1]["Pass Plays"]]_vars

\* fill_team_stats has just run on its team's sheet, whatever its outcome
FillRan == last_op.kind = "fill_team_stats"

\* the values of the column of the sheet sum to more than 100
OverAllocated(sheet, c) ==
    /\ c \in Columns(sheet)
    /\ RatLess(Whole(100), ColumnSum(sheet, c))

\* the cells of the row under the columns are all negative
AllNegative(row, columns) == \A c \in columns : RatLess(row[c], Whole(0))

RushTotals == {"Carries", "Rushing Yards", "Rushing TDs"}
ReceivingTotals == {"Targets", "Receptions", "Receiving Yards", "Receiving TDs"}

\* the rows the sheet had keep their shares
SharesKept(before, after) ==
    /\ Len(after.rows) = Len(before.rows) + 1
    /\ \A i \in DOMAIN before.rows : \A c \in {"Rush Share", "Target Share"} :
           after.rows[i][c] = before.rows[i][c]

QBRows(sheet) == {i \in DOMAIN sheet.rows : sheet.rows[i]["Pos"] = Text("QB")}

\* the sheet-wide sum of the column times Games Started/17 of the row
StartedShare(sheet, c, i) ==
    RatDiv(RatMul(ColumnSum(sheet, c), sheet.rows[i]["Games Started"]), Whole(17))

\* the sum of the column over the quarterbacks
QBSum(sheet, c) ==
    Sum(Listed([i \in DOMAIN sheet.rows |->
                  IF i \in QBRows(sheet) THEN sheet.rows[i][c] ELSE nan]))

PassingTotals == {"Completions", "Passing Yards", "Passing TDs"}

\* C21: in the sheet fill_team_stats writes, the Completions, Passing Yards
\* and Passing TDs of every QB row are the sheet-wide sums of Receptions,
\* Receiving Yards and Receiving TDs times the row's Games Started/17, so
\* that with the quarterbacks' Games Started summing to 17 their Passing
\* Yards sum to the sheet's Receiving Yards; the other rows have no passing
\* values
C21_PassingTotals ==
    [][FillWrote'
         => LET after == StoredSheet(book', last_op'.team_name)
            IN  /\ \A i \in QBRows(after) :
                       /\ after.rows[i]["Completions"] =
                              StartedShare(after, "Receptions", i)
                       /\ after.rows[i]["Passing Yards"] =
                              StartedShare(after, "Receiving Yards", i)
                       /\ after.rows[i]["Passing TDs"] =
                              StartedShare(after, "Receiving TDs", i)
                /\ QBSum(after, "Games Started") = Whole(17)
                     => QBSum(after, "Passing Yards") =
                            ColumnSum(after, "Receiving Yards")
                /\ \A i \in DOMAIN after.rows \ QBRows(after) :
                       \A c \in PassingTotals \cup {"Passing Attempts"} :
                           after.rows[i][c] = nan]_vars

\* a sheet filled with two quarterbacks who share the season's starts and
\* pass for different, positive yards
C21_Witness ==
    /\ FillWrote
    /\ LET after == StoredSheet(book, last_op.team_name)
       IN  /\ Cardinality(QBRows(after)) = 2
           /\ QBSum(after, "Games Started") = Whole(17)
           /\ \A i \in QBRows(after) :
                  RatLess(Whole(0), after.rows[i]["Passing Yards"])
           /\ \E i, j \in QBRows(after) :
                  RatLess(after.rows[i]["Passing Yards"], after.rows[j]["Passing Yards"])

\* project_player has just run and the player's constructor returned
ProjectPlayerRan ==
    /\ driver.pc = "project_player"
    /\ driver' # driver
    /\ driver'.pc # "raised" \/ Len(driver'.calls) > Len(driver.calls) + 1

\* the calls the step added
NewCalls == SubSeq(driver'.calls, Len(driver.calls) + 1, Len(driver'.calls))

\* C22: when no player is selected for the position, the constructor leaves
\* projections_exist False and has consulted the roster and no player page,
\* and project_player calls neither project (no statistic is asked for) nor
\* save_projections: the workbook is as it was
C22_NoPlayerSelected ==
    [][(ProjectPlayerRan /\ driver'.selected = NoPlayer)
         => /\ ~driver'.projections_exist
            /\ Len(NewCalls) = 1
            /\ NewCalls[1].call \in {"SkillPlayer", "QB"}
            /\ "player" \notin NewCalls[1].pages
            /\ book' = book /\ folder' = folder
            /\ driver'.pc = "another_prompt"]_vars

\* a receiver position gone through with no player selected, after a team
\* was saved into the workbook
C22_Witness ==
    /\ driver.pc = "another_prompt"
    /\ driver.selected = NoPlayer
    /\ ~driver.projections_exist
    /\ driver.calls[Len(driver.calls)].call = "SkillPlayer"
    /\ book.exists

\* where in main's calls the calls of that name for the team are
CallsAt(name, team_name) ==
    {k \in DOMAIN driver.calls :
        driver.calls[k].call = name /\ driver.calls[k].team_name = team_name}

\* where the calls of project_position and of project_player's callees for
\* the team are
PositionCallsAt(team_name) ==
    {k \in DOMAIN driver.calls :
        /\ driver.calls[k].team_name = team_name
        /\ driver.calls[k].position # ""}

\* the positions project_position was called with for the team, in the
\* order of the calls
RECURSIVE Offered(_, _)
Offered(team_name, n) ==
    IF n = 0 THEN <<>>
    ELSE LET c == driver.calls[n]
         IN  IF c.call = "project_position" /\ c.team_name = team_name
             THEN Append(Offered(team_name, n - 1), c.position)
             ELSE Offered(team_name, n - 1)

\* C23: for every team, the team-level projection and its save come before
\* any position's projection, the positions are offered in the order QB, WR,
\* RB, TE, fill_team_stats runs only after the four positions are finished,
\* create_fantasy_rankings runs once, after the last team and as the last
\* call; a team the operator does not answer "y" for has no call at all
C23_OrderOfSteps ==
    /\ \A n \in DOMAIN teams :
         LET team_name == teams[n]
             offered == Offered(team_name, Len(driver.calls))
         IN  /\ \A i \in CallsAt("Team.project", team_name)
                           \cup CallsAt("Team.save_projections", team_name) :
                    \A j \in PositionCallsAt(team_name) : i < j
             /\ \A i \in CallsAt("Team", team_name) :
                    \A j \in DOMAIN driver.calls :
                        driver.calls[j].team_name = team_name => i <= j
             /\ Len(offered) <= Len(Positions)
             /\ offered = SubSeq(Positions, 1, Len(offered))
             /\ Cardinality(CallsAt("fill_team_stats", team_name)) <= 1
             /\ \A i \in CallsAt("fill_team_stats", team_name) :
                    /\ offered = Positions
                    /\ \A j \in DOMAIN driver.calls :
                           driver.calls[j].team_name = team_name => j <= i
             /\ team_name \in driver.declined
                  => \A j \in DOMAIN driver.calls :
                         driver.calls[j].team_name # team_name
    /\ Cardinality(CallsAt("create_fantasy_rankings", "all")) <= 1
    /\ \A i \in CallsAt("create_fantasy_rankings", "all") :
           /\ i = Len(driver.calls)
           /\ driver.team = Len(teams)
           /\ driver.pc \in {"returned", "raised"}
    /\ driver.pc = "returned"
         => Cardinality(CallsAt("create_fantasy_rankings", "all")) = 1

\* a team the operator does not answer "y" for: the step writes nothing
C23_DeclinedTeamWritesNothing ==
    [][(driver.pc = "team_prompt" /\ driver'.declined # driver.declined)
         => /\ book' = book /\ folder' = folder
            /\ driver'.calls = driver.calls
            /\ UNCHANGED cacheVars]_vars

\* main returned: the first team projected with its team-level numbers and
\* a player and filled, the second declined, then the rankings
C23_Witness ==
    /\ driver.pc = "returned"
    /\ driver.declined = {teams[2]}
    /\ CallsAt("Team.save_projections", teams[1]) # {}
    /\ CallsAt("SkillPlayer.save_projections", teams[1]) # {}
    /\ CallsAt("fill_team_stats", teams[1]) # {}
    /\ book_error = "none"
    /\ "WR" \in SheetNames(book)

\* Team.save_projections has just written the sheet
TeamSaved1 == last_op.kind = "Team.save_projections" /\ book_error = "none"

LatestTotals(sheet) ==
    sheet.rows[CHOOSE i \in TeamRows(sheet) : \A j \in TeamRows(sheet) : j <= i]

\* the Carries, Targets and Passing Attempts of the sheet are those the row
\* of totals gives: the share of its Run Plays, the share of its Pass Plays,
\* and for a quarterback its Pass Plays by the games started of 17
DerivedFrom(sheet, totals) ==
    \A i \in DOMAIN sheet.rows :
        LET row == sheet.rows[i]
        IN  /\ row["Carries"]
                 = RatMul(RatDiv(row["Rush Share"], Whole(Percent)), totals["Run Plays"])
            /\ row["Targets"]
                 = RatMul(RatDiv(row["Target Share"], Whole(Percent)), totals["Pass Plays"])
            /\ row["Pos"] = Text("QB")
                 => row["Passing Attempts"]
                      = RatDiv(RatMul(totals["Pass Plays"], row["Games Started"]),
                               Whole(Games))

\* C25: the carries, targets and passing attempts fill_team_stats writes are
\* derived from the run-play and pass-play totals Team.save_projections saved
\* most recently for the team, also when the sheet held rows before that save
C25_LatestTotals ==
    [][(FillWrote' /\ TeamRows(StoredSheet(book', last_op'.team_name)) # {})
         => LET after == StoredSheet(book', last_op'.team_name)
            IN  DerivedFrom(after, LatestTotals(after))]_vars

\* what the code does: the values are derived from the first row of the sheet
C25_FirstRowTotals ==
    [][FillWrote'
         => LET after == StoredSheet(book', last_op'.team_name)
            IN  DerivedFrom(after, after.rows[1])]_vars

\* a sheet filled after two saves of the team's totals: the totals saved last
\* differ from those of the first row, and the values are those of the first
C25_StaleTotals ==
    /\ FillWrote
    /\ LET after == StoredSheet(book, last_op.team_name)
       IN  /\ 1 \in TeamRows(after)
           /\ LatestTotals(after)["Run Plays"] # after.rows[1]["Run Plays"]
           /\ DerivedFrom(after, after.rows[1])
           /\ ~DerivedFrom(after, LatestTotals(after))
           /\ \E i \in DOMAIN after.rows : RatLess(Whole(0), after.rows[i]["Carries"])

====
